---- MODULE Spec2Model ----
(***************************************************************************)
(* Shirazeh: plugin lifecycle, hash router and page-load pipeline.         *)
(*                                                                         *)
(* Strings are sequences of UTF-16 code units (natural numbers); the       *)
(* literals below are written as code units with the text in a comment.    *)
(***************************************************************************)
EXTENDS Integers, Sequences, FiniteSets, TLC

VARIABLES
    \* ---- Router (src/src/core/router.js) ----
    hash,        \* window.location.hash, "" or "#..."
    rDefault,    \* Router.defaultPage
    rInited,     \* Router.init() has run
    lastNav,     \* arguments of the latest onNavigate invocation: [filePath, path]
    navCount,    \* number of onNavigate invocations so far
    events,      \* number of hashchange events dispatched so far
    lastUrl,     \* the absolute URL the current hash was built from, or NoUrl
    \* ---- PluginManager (src/unnamed/part_006) ----
    paths,       \* the pluginPaths argument: NotAnArray, or the module behind each path
    pStatus,     \* per path: "idle", "importing" (awaiting import()), "settled"
    plugins,     \* PluginManager.plugins: indices of paths, in push order
    initCalls,   \* per path: number of onInit invocations
    pInit,       \* per path: result of onInit: "none", "returned", "threw",
                 \*           "pending", "fulfilled", "rejected" (a returned Promise)
    loadResult,  \* the promise of loadPlugins: "none", "pending", "resolved", "rejected"
    lastEvent,   \* eventName of the latest notify, or "none"
    delivered,   \* the plugins whose handler the latest notify invoked, in order
    notifyThrew, \* the latest notify let an exception escape
    recv,        \* per path: number of onPageLoad invocations received
    notifies,    \* number of notify calls so far
    \* ---- configuration and environment ----
    cfgRemote,   \* config.remote.enabled
    cfgProxy,    \* config.remote.corsProxyUrl
    cfgBase,     \* config.basePath
    cfgSidebar,  \* config.sidebar.enabled
    cfgParser,   \* config.markdown.parser: "marked", "parsneshan" or "custom" ({path})
    rootExists,  \* the document has an element matching selectors.root
    \* ---- App.start (src/src/core/app.js) and ParserManager ----
    appPc,       \* "new", "theme", "parser", "plugins", "sidebarInit" (the awaits of
                 \* start), "running", "fatal" (banner shown), "rejected" (start rejected)
    failedAt,    \* the step of start that threw, or "none"
    parserInstance, \* ParserManager.parserInstance: "null", "loaded", "fallback",
                 \* "noParse" (an instance without a parse method)
    rootHtml,    \* content of the root element: "initial", "layout", "banner"
    sidebarFetch, \* the addresses Sidebar.load handed to fetch()
    \* ---- PageManager (src/unnamed/part_014) ----
    calls,       \* the loadPage calls awaiting a fetch
    lastDone,    \* the loadPage call that settled last, or NoCall
    content,     \* what the content root shows: [kind, id, msg]
    fetched,     \* every address handed to fetch() by the page pipeline
    loadCalls,   \* number of loadPage calls so far
    titled,      \* the latest updateTitle call of the pipeline: the call it ran
                 \* in, that call's currentPath, and the path _getPageTitle read
    \* ---- configManager (src/unnamed/part_009) ----
    cfgDefaults, \* DEFAULT_CONFIG
    cfgUser,     \* window.shirazeh, the user's overrides
    cfgMerged,   \* the result of getConfig(), or NoConfig before it ran
    \* ---- TitleManager (src/unnamed/part_006) ----
    titleCfg,    \* config.title, config.appName
    titleCtx,    \* what updateTitle reads: the fragment path, the sidebar's link
                 \* map entry and the text of the first h1 of the content
    titleOut,    \* NoTitle, or [page: result of _getPageTitle, doc: document.title]
    \* ---- PageManager._rewriteRemoteContent (src/unnamed/part_014) ----
    docIn,       \* a fetched document: the file path it was fetched for and its
                 \* links and images in order, each [image, target]
    docOut,      \* NoDoc, or the references handed to the parser
    \* ---- utils.normalizePath (src/src/core/utils.js) ----
    normIn,      \* the string handed to normalizePath
    normOut      \* the results so far: of normalizePath(normIn), then of
                 \* normalizePath applied to the previous result

routerVars == <<hash, rDefault, rInited, lastNav, navCount, events, lastUrl>>
pluginVars == <<paths, pStatus, plugins, initCalls, pInit, loadResult,
                lastEvent, delivered, notifyThrew, recv, notifies>>

mergeVars == <<cfgDefaults, cfgUser, cfgMerged>>
titleVars == <<titleCfg, titleCtx, titleOut>>
rewriteVars == <<docIn, docOut>>
normVars == <<normIn, normOut>>
libVars == <<mergeVars, titleVars, rewriteVars, normVars>>
baseConfigVars == <<cfgRemote, cfgProxy, cfgBase, cfgSidebar, cfgParser, rootExists>>
configVars == <<baseConfigVars, libVars>>
startVars == <<appPc, failedAt, parserInstance, rootHtml, sidebarFetch>>
pageVars == <<calls, lastDone, content, fetched, loadCalls, titled>>
appVars == <<configVars, startVars, pageVars>>

vars == <<routerVars, pluginVars, appVars>>

(***************************************************************************)
(* Bounds                                                                  *)
(***************************************************************************)
MaxPathLen == 3     \* longest local navigation path enumerated
MaxUrlLen == 2      \* longest URL tail (after "http://") enumerated
MaxEvents == 2      \* hashchange events per behaviour
NPlugins == 2       \* longest configured plugin list
MaxNotify == 2      \* notify calls per behaviour
MaxNav == 1         \* hashchange events after Router.init in the application
MaxTailLen == 4     \* longest hand-written tail of a remote route enumerated
NPrims == 2         \* distinct primitive values in a configuration object
MaxRefs == 2        \* most links and images in a fetched document
MaxNormLen == 4     \* longest input of normalizePath enumerated
MaxReapply == 2     \* applications of normalizePath per behaviour

(***************************************************************************)
(* String helpers and literals                                             *)
(***************************************************************************)
StartsWith(s, p) == Len(s) >= Len(p) /\ SubSeq(s, 1, Len(p)) = p

Substring(s, n) == SubSeq(s, n + 1, Len(s))      \* String.prototype.substring(n)

RECURSIVE SeqsUpTo(_, _)
SeqsUpTo(S, n) ==
    IF n = 0 THEN {<<>>}
    ELSE LET shorter == SeqsUpTo(S, n - 1)
         IN  shorter \cup {Append(s, c) : s \in shorter, c \in S}

Slash == <<47>>                                         \* "/"
HashMark == <<35>>                                      \* "#"
HashRoot == <<35, 47>>                                  \* "#/"
RemotePrefix == <<47, 114, 101, 109, 111, 116, 101, 47>> \* "/remote/"
DotMd == <<46, 109, 100>>                               \* ".md"
HttpScheme == <<104, 116, 116, 112, 58, 47, 47>>        \* "http://"
ReadmeMd == <<82, 69, 65, 68, 77, 69, 46, 109, 100>>    \* "README.md"
HomeMd == <<104, 111, 109, 101, 46, 109, 100>>          \* "home.md"
NoUrl == <<0>>                                          \* marker: hash not built from a URL
NoNav == [filePath |-> <<>>, path |-> <<>>]             \* marker: onNavigate not yet invoked

(***************************************************************************)
(* utils.js: UTF-8 and Base64                                              *)
(***************************************************************************)
\* TextEncoder.encode of one BMP code unit (no surrogates enumerated)
Utf8Bytes(cp) ==
    IF cp < 128 THEN <<cp>>
    ELSE IF cp < 2048 THEN <<192 + (cp \div 64), 128 + (cp % 64)>>
    ELSE <<224 + (cp \div 4096), 128 + ((cp \div 64) % 64), 128 + (cp % 64)>>

RECURSIVE Utf8Encode(_)
Utf8Encode(str) ==
    IF str = <<>> THEN <<>> ELSE Utf8Bytes(Head(str)) \o Utf8Encode(Tail(str))

\* the Base64 alphabet: sextet value -> character
B64Char(v) ==
    IF v < 26 THEN 65 + v
    ELSE IF v < 52 THEN 97 + (v - 26)
    ELSE IF v < 62 THEN 48 + (v - 52)
    ELSE IF v = 62 THEN 43 ELSE 47

IsB64Char(c) ==
    \/ c \in 65..90
    \/ c \in 97..122
    \/ c \in 48..57
    \/ c \in {43, 47}

B64Val(c) ==
    IF c \in 65..90 THEN c - 65
    ELSE IF c \in 97..122 THEN c - 97 + 26
    ELSE IF c \in 48..57 THEN c - 48 + 52
    ELSE IF c = 43 THEN 62 ELSE 63

\* window.btoa on a binary string (every unit <= 255)
RECURSIVE Btoa(_)
Btoa(b) ==
    IF Len(b) = 0 THEN <<>>
    ELSE IF Len(b) = 1 THEN
        <<B64Char(b[1] \div 4), B64Char((b[1] % 4) * 16), 61, 61>>
    ELSE IF Len(b) = 2 THEN
        <<B64Char(b[1] \div 4), B64Char((b[1] % 4) * 16 + (b[2] \div 16)),
          B64Char((b[2] % 16) * 4), 61>>
    ELSE
        <<B64Char(b[1] \div 4), B64Char((b[1] % 4) * 16 + (b[2] \div 16)),
          B64Char((b[2] % 16) * 4 + (b[3] \div 64)), B64Char(b[3] % 64)>>
        \o Btoa(SubSeq(b, 4, Len(b)))

RECURSIVE B64DecodeData(_)
B64DecodeData(d) ==
    IF Len(d) < 2 THEN <<>>
    ELSE IF Len(d) = 2 THEN
        <<B64Val(d[1]) * 4 + (B64Val(d[2]) \div 16)>>
    ELSE IF Len(d) = 3 THEN
        <<B64Val(d[1]) * 4 + (B64Val(d[2]) \div 16),
          (B64Val(d[2]) % 16) * 16 + (B64Val(d[3]) \div 4)>>
    ELSE
        <<B64Val(d[1]) * 4 + (B64Val(d[2]) \div 16),
          (B64Val(d[2]) % 16) * 16 + (B64Val(d[3]) \div 4),
          (B64Val(d[3]) % 4) * 64 + B64Val(d[4])>>
        \o B64DecodeData(SubSeq(d, 5, Len(d)))

IsAsciiWhitespace(c) == c \in {9, 10, 12, 13, 32}

\* window.atob (forgiving-base64 decode): [ok, val]; ok = FALSE is the
\* InvalidCharacterError it throws
Atob(s) ==
    LET noWs == SelectSeq(s, LAMBDA c : ~IsAsciiWhitespace(c))
        n == Len(noWs)
        data ==
            IF n > 0 /\ n % 4 = 0 THEN
                IF noWs[n] = 61 /\ noWs[n - 1] = 61 THEN SubSeq(noWs, 1, n - 2)
                ELSE IF noWs[n] = 61 THEN SubSeq(noWs, 1, n - 1)
                ELSE noWs
            ELSE noWs
    IN  IF Len(data) % 4 = 1 \/ \E i \in 1..Len(data) : ~IsB64Char(data[i])
        THEN [ok |-> FALSE, val |-> <<>>]
        ELSE [ok |-> TRUE, val |-> B64DecodeData(data)]

\* utf8ToBase64: UTF-8 bytes of the string, then btoa
Utf8ToBase64(str) == Btoa(Utf8Encode(str))

(***************************************************************************)
(* router.js                                                               *)
(***************************************************************************)
\* getCurrentPath without the "|| '/'" default
GetCurrentPathNoDefault(h) == Substring(h, 1)

\* Router.getCurrentPath
GetCurrentPath(h) == IF Substring(h, 1) = <<>> THEN Slash ELSE Substring(h, 1)

\* a variant that keeps the leading slash of a local path
GetFilePathKeepSlash(path, defaultPage) ==
    IF path = Slash THEN defaultPage
    ELSE IF StartsWith(path, RemotePrefix) THEN
        LET r == Atob(Substring(path, Len(RemotePrefix)))
        IN  IF r.ok THEN r.val ELSE defaultPage
    ELSE path \o DotMd

\* getFilePath without the try/catch around atob: the undecoded tail goes on
GetFilePathNoRecover(path, defaultPage) ==
    IF path = Slash THEN defaultPage
    ELSE IF StartsWith(path, RemotePrefix) THEN
        LET r == Atob(Substring(path, Len(RemotePrefix)))
        IN  IF r.ok THEN r.val ELSE Substring(path, Len(RemotePrefix))
    ELSE Substring(path, 1) \o DotMd

\* Router.getFilePath
GetFilePath(path, defaultPage) ==
    IF path = Slash THEN defaultPage
    ELSE IF StartsWith(path, RemotePrefix) THEN
        LET r == Atob(Substring(path, Len(RemotePrefix)))
        IN  IF r.ok THEN r.val ELSE defaultPage
    ELSE Substring(path, 1) \o DotMd

\* Router.handleRouteChange: one onNavigate(filePath, path) invocation
HandleRouteChange(h, defaultPage) ==
    LET path == GetCurrentPath(h)
    IN  [filePath |-> GetFilePath(path, defaultPage), path |-> path]

(***************************************************************************)
(* Inputs of the router                                                    *)
(***************************************************************************)
PathAlphabet == {47, 97, 35}            \* "/", "a", "#"
UrlAlphabet == {47, 97, 233, 8364}      \* "/", "a", e-acute, euro sign

\* a route to a local file whose name begins with "http": "/http"
HttpNamedPath == <<47, 104, 116, 116, 112>>

LocalPaths == (SeqsUpTo(PathAlphabet, MaxPathLen) \ {<<>>}) \cup {HttpNamedPath}
Urls == {HttpScheme \o t : t \in SeqsUpTo(UrlAlphabet, MaxUrlLen)}
DefaultPages == {ReadmeMd, HomeMd}

IsAscii(s) == \A i \in 1..Len(s) : s[i] < 128

\* the href Sidebar.load and _rewriteRemoteContent build for an absolute URL
RemoteHash(u) == HashMark \o RemotePrefix \o Utf8ToBase64(u)

(***************************************************************************)
(* Router state machine                                                    *)
(***************************************************************************)
RouterStart ==
    /\ hash \in {<<>>, HashRoot} \cup {HashMark \o p : p \in {<<47, 97>>, <<47, 97, 35, 97>>}}
    /\ rDefault \in DefaultPages
    /\ rInited = FALSE
    /\ lastNav = NoNav
    /\ navCount = 0
    /\ events = 0
    /\ lastUrl = NoUrl

\* Router.init: replaceState to "#/" when the hash is empty, then
\* handleRouteChange synchronously
RouterInit ==
    /\ ~rInited
    /\ LET h == IF hash = <<>> THEN HashRoot ELSE hash
       IN  /\ hash' = h
           /\ lastNav' = HandleRouteChange(h, rDefault)
    /\ rInited' = TRUE
    /\ navCount' = navCount + 1
    /\ UNCHANGED <<rDefault, events, lastUrl>>
    /\ UNCHANGED <<pluginVars, appVars>>

\* a hashchange event after the user followed a local link or typed a fragment
HashChangeLocal ==
    /\ rInited
    /\ events < MaxEvents
    /\ \E p \in LocalPaths :
        /\ HashMark \o p # hash
        /\ hash' = HashMark \o p
        /\ lastNav' = HandleRouteChange(HashMark \o p, rDefault)
    /\ lastUrl' = NoUrl
    /\ events' = events + 1
    /\ navCount' = navCount + 1
    /\ UNCHANGED <<rDefault, rInited>>
    /\ UNCHANGED <<pluginVars, appVars>>

\* a hashchange event after the user followed a remote link built by the
\* sidebar or by remote-link rewriting
HashChangeRemote ==
    /\ rInited
    /\ events < MaxEvents
    /\ \E u \in Urls :
        /\ RemoteHash(u) # hash
        /\ hash' = RemoteHash(u)
        /\ lastNav' = HandleRouteChange(RemoteHash(u), rDefault)
        /\ lastUrl' = u
    /\ events' = events + 1
    /\ navCount' = navCount + 1
    /\ UNCHANGED <<rDefault, rInited>>
    /\ UNCHANGED <<pluginVars, appVars>>

\* the tails a hand-written or damaged remote route can carry: every string
\* over "!", "a", "=" and a valid encoding followed by an anchor
TailAlphabet == {33, 97, 61}

RemoteTails ==
    SeqsUpTo(TailAlphabet, MaxTailLen)
    \cup {Utf8ToBase64(HttpScheme \o <<97>>) \o <<35, 97>>}

\* a hashchange event after the user typed or pasted a remote route
HashChangeTyped ==
    /\ rInited
    /\ events < MaxEvents
    /\ \E t \in RemoteTails :
        LET h == HashMark \o RemotePrefix \o t
        IN  /\ h # hash
            /\ hash' = h
            /\ lastNav' = HandleRouteChange(h, rDefault)
    /\ lastUrl' = NoUrl
    /\ events' = events + 1
    /\ navCount' = navCount + 1
    /\ UNCHANGED <<rDefault, rInited>>
    /\ UNCHANGED <<pluginVars, appVars>>

\* a hashchange event after the user removed the fragment: location.hash is ""
HashCleared ==
    /\ rInited
    /\ events < MaxEvents
    /\ hash # <<>>
    /\ hash' = <<>>
    /\ lastNav' = HandleRouteChange(<<>>, rDefault)
    /\ lastUrl' = NoUrl
    /\ events' = events + 1
    /\ navCount' = navCount + 1
    /\ UNCHANGED <<rDefault, rInited>>
    /\ UNCHANGED <<pluginVars, appVars>>

(***************************************************************************)
(* PluginManager (pluginManager.js)                                        *)
(***************************************************************************)
\* a pluginPaths argument that is no array (undefined config, a string, ...)
NotAnArray == [array |-> FALSE, mods |-> <<>>]

\* What a configured path can hold.  import: the dynamic import() settles
\* "ok" or "fail"; export: the default export is a "class" or "none";
\* ctor: new PluginClass() is "ok" or "throws"; onInit: "absent", "ok",
\* "throws", or an async function whose promise ends "asyncOk" /
\* "asyncReject"; onPageLoad, onDestroy: "absent", "ok" or "throws".
Module(i, e, c, oi, opl, od) ==
    [import |-> i, export |-> e, ctor |-> c, onInit |-> oi, onPageLoad |-> opl,
     onDestroy |-> od]

PluginKinds ==
    { Module("fail", "class", "ok", "ok", "ok", "absent"),
      Module("ok", "none", "ok", "ok", "ok", "absent"),
      Module("ok", "class", "throws", "ok", "ok", "absent"),
      Module("ok", "class", "ok", "throws", "ok", "absent"),
      Module("ok", "class", "ok", "absent", "ok", "absent"),
      Module("ok", "class", "ok", "ok", "ok", "ok"),
      Module("ok", "class", "ok", "ok", "throws", "absent"),
      Module("ok", "class", "ok", "ok", "absent", "throws"),
      Module("ok", "class", "ok", "asyncOk", "ok", "absent"),
      Module("ok", "class", "ok", "asyncReject", "ok", "absent") }

EventNames == {"onPageLoad", "onDestroy"}

PathLists ==
    {[array |-> TRUE, mods |-> l] : l \in UNION {[1..n -> PluginKinds] : n \in 0..NPlugins}}

NPaths == IF paths.array THEN Len(paths.mods) ELSE 0

ConstFn(v) == [i \in 1..NPlugins + 1 |-> v]

InList(i) == \E k \in 1..Len(plugins) : plugins[k] = i

\* loadPlugins, lines 222-235 with the guard moved inside the onInit test:
\* the instance is pushed only when it has an onInit
PushedOnlyWithInit(m) ==
    /\ m.import = "ok"
    /\ m.export = "class"
    /\ m.ctor = "ok"
    /\ m.onInit \in {"ok", "asyncOk", "asyncReject"}

\* loadPlugins, lines 217-238: the instance reaches this.plugins.push when
\* nothing before the push threw into the catch
Pushed(m) ==
    /\ m.import = "ok"
    /\ m.export = "class"
    /\ m.ctor = "ok"
    /\ m.onInit # "throws"

\* loadPlugins, lines 227-229: onInit is invoked when the instance was
\* constructed and has the method
InitInvoked(m) ==
    /\ m.import = "ok"
    /\ m.export = "class"
    /\ m.ctor = "ok"
    /\ m.onInit # "absent"

\* what the onInit invocation leaves behind (it is not awaited)
InitResult(m) ==
    IF ~InitInvoked(m) THEN "none"
    ELSE IF m.onInit = "throws" THEN "threw"
    ELSE IF m.onInit = "ok" THEN "returned"
    ELSE "pending"

\* the promise of one pluginPaths.map callback: its whole body is inside
\* try/catch, so it fulfils whatever the module does
TaskResult(m) == "fulfilled"

PluginsIdle ==
    /\ paths = NotAnArray
    /\ pStatus = ConstFn("idle")
    /\ plugins = <<>>
    /\ initCalls = ConstFn(0)
    /\ pInit = ConstFn("none")
    /\ loadResult = "none"
    /\ lastEvent = "none"
    /\ delivered = <<>>
    /\ notifyThrew = FALSE
    /\ recv = ConstFn(0)
    /\ notifies = 0

PluginsStart ==
    /\ paths \in {NotAnArray} \cup PathLists
    /\ pStatus = ConstFn("idle")
    /\ plugins = <<>>
    /\ initCalls = ConstFn(0)
    /\ pInit = ConstFn("none")
    /\ loadResult = "none"
    /\ lastEvent = "none"
    /\ delivered = <<>>
    /\ notifyThrew = FALSE
    /\ recv = ConstFn(0)
    /\ notifies = 0

RouterIdle ==
    /\ hash = <<>>
    /\ rDefault = ReadmeMd
    /\ rInited = FALSE
    /\ lastNav = NoNav
    /\ navCount = 0
    /\ events = 0
    /\ lastUrl = NoUrl

\* loadPlugins up to the first await of every map callback: each callback
\* runs synchronously to its import(); Promise.all of no callbacks resolves
LoadPlugins ==
    /\ loadResult = "none"
    /\ IF ~paths.array \/ NPaths = 0
       THEN /\ loadResult' = "resolved"
            /\ UNCHANGED pStatus
       ELSE /\ loadResult' = "pending"
            /\ pStatus' = [i \in DOMAIN pStatus |->
                              IF i <= NPaths THEN "importing" ELSE pStatus[i]]
    /\ UNCHANGED <<paths, plugins, initCalls, pInit, lastEvent, delivered,
                   notifyThrew, recv, notifies>>
    /\ UNCHANGED <<routerVars, appVars>>

\* the import() of path i settles and the rest of its callback runs:
\* construct, onInit, push, or the catch
ImportSettled(i) ==
    /\ i \in 1..NPaths
    /\ pStatus[i] = "importing"
    /\ LET m == paths.mods[i]
           status == [pStatus EXCEPT ![i] = "settled"]
           allSettled == \A j \in 1..NPaths : status[j] = "settled"
       IN  /\ pStatus' = status
           /\ initCalls' = [initCalls EXCEPT ![i] = @ + (IF InitInvoked(m) THEN 1 ELSE 0)]
           /\ pInit' = [pInit EXCEPT ![i] = InitResult(m)]
           /\ plugins' = IF Pushed(m) THEN Append(plugins, i) ELSE plugins
           /\ loadResult' =
                IF loadResult = "pending" /\ TaskResult(m) = "rejected" THEN "rejected"
                ELSE IF loadResult = "pending" /\ allSettled THEN "resolved"
                ELSE loadResult
    /\ UNCHANGED <<paths, lastEvent, delivered, notifyThrew, recv, notifies>>
    /\ UNCHANGED <<routerVars, appVars>>

\* the promise an async onInit returned settles; nothing awaits it
AsyncInitSettled(i) ==
    /\ i \in 1..NPaths
    /\ pInit[i] = "pending"
    /\ pInit' = [pInit EXCEPT ![i] =
                    IF paths.mods[i].onInit = "asyncReject" THEN "rejected" ELSE "fulfilled"]
    /\ UNCHANGED <<paths, pStatus, plugins, initCalls, loadResult, lastEvent,
                   delivered, notifyThrew, recv, notifies>>
    /\ UNCHANGED <<routerVars, appVars>>

Handler(m, eventName) == IF eventName = "onPageLoad" THEN m.onPageLoad ELSE m.onDestroy

\* notify with the try/catch around the whole loop: the first throwing
\* handler ends the iteration
RECURSIVE NotifyRunStopOnThrow(_, _, _)
NotifyRunStopOnThrow(list, mods, eventName) ==
    IF list = <<>> THEN [invoked |-> <<>>, threw |-> FALSE]
    ELSE LET h == Handler(mods[Head(list)], eventName)
             rest == NotifyRunStopOnThrow(Tail(list), mods, eventName)
         IN  IF h = "absent" THEN rest
             ELSE IF h = "throws" THEN [invoked |-> <<Head(list)>>, threw |-> FALSE]
             ELSE [invoked |-> <<Head(list)>> \o rest.invoked, threw |-> rest.threw]

\* PluginManager.notify: the handlers invoked, in order, and whether an
\* exception left the loop
RECURSIVE NotifyRun(_, _, _)
NotifyRun(list, mods, eventName) ==
    IF list = <<>> THEN [invoked |-> <<>>, threw |-> FALSE]
    ELSE LET h == Handler(mods[Head(list)], eventName)
             rest == NotifyRun(Tail(list), mods, eventName)
         IN  IF h = "absent" THEN rest
             ELSE [invoked |-> <<Head(list)>> \o rest.invoked, threw |-> rest.threw]

Count(seq, x) == Cardinality({k \in 1..Len(seq) : seq[k] = x})

\* a notify call made once loadPlugins has resolved (App.start awaits it
\* before anything that notifies exists)
Notify(eventName) ==
    /\ loadResult = "resolved"
    /\ notifies < MaxNotify
    /\ LET run == NotifyRun(plugins, paths.mods, eventName)
       IN  /\ delivered' = run.invoked
           /\ notifyThrew' = run.threw
           /\ recv' = [i \in DOMAIN recv |->
                          recv[i] + (IF eventName = "onPageLoad"
                                     THEN Count(run.invoked, i) ELSE 0)]
    /\ lastEvent' = eventName
    /\ notifies' = notifies + 1
    /\ UNCHANGED <<paths, pStatus, plugins, initCalls, pInit, loadResult>>
    /\ UNCHANGED <<routerVars, appVars>>

PluginsNext ==
    \/ LoadPlugins
    \/ \E i \in 1..NPlugins + 1 : ImportSettled(i)
    \/ \E i \in 1..NPlugins + 1 : AsyncInitSettled(i)
    \/ \E e \in EventNames : Notify(e)

(***************************************************************************)
(* utils.js resolvePath and fileReader.js                                  *)
(***************************************************************************)
HttpWord == <<104, 116, 116, 112>>                      \* "http"
HttpsWord == <<104, 116, 116, 112, 115>>                \* "https"
NotFoundPage == <<52, 48, 52, 46, 109, 100>>            \* files.notFoundPage, "404.md"
SidebarFile == <<95, 115, 46, 109, 100>>                 \* a files.sidebar value, "_s.md"
NoProxy == <<>>                                         \* remote.corsProxyUrl, ""

\* String.prototype.replace(/\/\//g, '/'): non-overlapping matches, left to right
RECURSIVE CollapseSlashes(_)
CollapseSlashes(s) ==
    IF Len(s) < 2 THEN s
    ELSE IF s[1] = 47 /\ s[2] = 47 THEN Slash \o CollapseSlashes(SubSeq(s, 3, Len(s)))
    ELSE <<s[1]>> \o CollapseSlashes(Tail(s))

\* resolvePath(relativePath, basePath)
ResolvePath(relativePath, basePath) ==
    LET rel == IF basePath # <<>> /\ StartsWith(relativePath, Slash)
               THEN Substring(relativePath, 1) ELSE relativePath
        joined == IF basePath = <<>> THEN rel
                  ELSE IF rel = <<>> THEN basePath
                  ELSE basePath \o Slash \o rel
    IN  CollapseSlashes(joined)

Lower(c) == IF c \in 65..90 THEN c + 32 ELSE c
LowerStr(s) == [k \in 1..Len(s) |-> Lower(s[k])]
IsAlpha(c) == Lower(c) \in 97..122
IsSchemeChar(c) == IsAlpha(c) \/ c \in 48..57 \/ c \in {43, 45, 46}

\* position of the first ":" of s, or 0
SchemeEnd(s) ==
    IF \E k \in 1..Len(s) : s[k] = 58
    THEN CHOOSE k \in 1..Len(s) : s[k] = 58 /\ \A j \in 1..(k - 1) : s[j] # 58
    ELSE 0

HasScheme(s) ==
    LET k == SchemeEnd(s)
    IN  k > 1 /\ IsAlpha(s[1]) /\ \A j \in 2..(k - 1) : IsSchemeChar(s[j])

SchemeOf(s) == LowerStr(SubSeq(s, 1, SchemeEnd(s) - 1))

\* some character after position k that is no slash and no backslash: a host
HasHostAfter(s, k) == \E j \in (k + 1)..Len(s) : s[j] \notin {47, 92}

\* isAbsoluteUrl: new URL(path) does not throw (a scheme, and a host where
\* the scheme needs one)
IsAbsoluteUrl(path) ==
    /\ HasScheme(path)
    /\ SchemeOf(path) \in {HttpWord, HttpsWord} => HasHostAfter(path, SchemeEnd(path))

\* fetchContent without the isAbsoluteUrl test: every address is proxied
\* once remote loading is enabled and a proxy is configured
FetchAddressProxyAll(filePath, remoteEnabled, corsProxyUrl) ==
    IF remoteEnabled /\ corsProxyUrl # <<>>
    THEN corsProxyUrl \o filePath
    ELSE filePath

\* fetchContent, lines 29-37: the address handed to fetch
FetchAddress(filePath, remoteEnabled, corsProxyUrl) ==
    IF IsAbsoluteUrl(filePath) /\ remoteEnabled /\ corsProxyUrl # <<>>
    THEN corsProxyUrl \o filePath
    ELSE filePath

\* fetch(address) leaves the document's origin: the address is
\* protocol-relative ("//host...") or spells out an http(s) authority;
\* the scheme is matched without regard to case
IsExternalAddress(a) ==
    \/ /\ Len(a) >= 2
       /\ a[1] \in {47, 92}
       /\ a[2] \in {47, 92}
       /\ HasHostAfter(a, 2)
    \/ /\ HasScheme(a)
       /\ SchemeOf(a) \in {HttpWord, HttpsWord}
       /\ LET k == SchemeEnd(a)
          IN  /\ Len(a) >= k + 2
              /\ a[k + 1] \in {47, 92}
              /\ a[k + 2] \in {47, 92}
              /\ HasHostAfter(a, k + 2)

\* fetch(address) requests the address without its fragment: the part up to
\* the first "#"
Resource(a) ==
    IF \E k \in 1..Len(a) : a[k] = 35
    THEN SubSeq(a, 1, (CHOOSE k \in 1..Len(a) : a[k] = 35 /\ \A j \in 1..(k - 1) : a[j] # 35) - 1)
    ELSE a

(***************************************************************************)
(* PageManager (pageManager.js)                                            *)
(***************************************************************************)
Range(f) == {f[x] : x \in DOMAIN f}

NoCall == [id |-> 0, filePath |-> <<>>, path |-> <<>>, outcome |-> "none", trace |-> <<>>]

\* what the parser, the title manager or the sidebar can throw:
\* an Error whose message includes 'not found', another Error, a value
\* without a string message (a thrown string), null or undefined
ThrownKinds == {"errNotFound", "errOther", "string", "nullish"}

FailChoices ==
    {[step |-> st, kind |-> k] : st \in {"parse", "title", "sidebar"}, k \in ThrownKinds}

\* fetch settles: a 2xx response, another status, or a rejection
FetchResults == {"ok", "status", "reject"}

NoFail == [step |-> "none", kind |-> "none"]

\* how a fetch settles together with what then fails: a failure of a later
\* step is possible only after a 2xx response
Settlements ==
    {[result |-> r, fail |-> NoFail] : r \in FetchResults}
    \cup {[result |-> "ok", fail |-> f] : f \in FailChoices}

\* loadPage, line 31
IsRemote(filePath) == StartsWith(filePath, HttpWord)

\* loadPage, line 34: the security gate throws
GateThrows(filePath, remoteEnabled) == IsRemote(filePath) /\ ~remoteEnabled

\* loadPage, line 38
ResolvedPath(filePath, basePath) ==
    IF IsRemote(filePath) THEN filePath ELSE ResolvePath(filePath, basePath)

IsHexDigit(c) == c \in 48..57 \/ Lower(c) \in 97..102

\* decodeURIComponent throws URIError: a "%" not followed by two hex digits
DecodeThrows(s) ==
    \E k \in 1..Len(s) :
        /\ s[k] = 37
        /\ ~(k + 2 <= Len(s) /\ IsHexDigit(s[k + 1]) /\ IsHexDigit(s[k + 2]))

\* path.indexOf('#', 1), as a 1-based position, or 0
AnchorIndex(path) ==
    IF \E k \in 2..Len(path) : path[k] = 35
    THEN CHOOSE k \in 2..Len(path) : path[k] = 35 /\ \A j \in 2..(k - 1) : path[j] # 35
    ELSE 0

\* _scrollToAnchor throws
AnchorThrows(path) ==
    AnchorIndex(path) > 0 /\ DecodeThrows(Substring(path, AnchorIndex(path)))

\* loadPage, lines 42-62: the steps after the fetch, in order
MainSteps(filePath, sidebarOn) ==
    (IF IsRemote(filePath) THEN <<"rewrite">> ELSE <<>>)
    \o <<"parse", "render", "title", "notify">>
    \o (IF sidebarOn THEN <<"sidebar">> ELSE <<>>)
    \o <<"anchor">>

\* _loadNotFoundPage, lines 108-122: the steps after the fetch, in order
NotFoundSteps(sidebarOn) ==
    <<"nf:parse", "nf:render", "nf:title", "nf:notify">>
    \o (IF sidebarOn THEN <<"nf:sidebar">> ELSE <<>>)

\* the steps completed before failStep throws; "throw" marks the throw
RECURSIVE RunSteps(_, _)
RunSteps(steps, failStep) ==
    IF steps = <<>> THEN [trace |-> <<>>, threw |-> FALSE]
    ELSE IF Head(steps) = failStep THEN [trace |-> <<"throw">>, threw |-> TRUE]
    ELSE LET r == RunSteps(Tail(steps), failStep)
         IN  [trace |-> <<Head(steps)>> \o r.trace, threw |-> r.threw]

\* the try block of loadPage if a rejected fetch carried a 'not found' message
AfterFetchRejectNotFound(c, result, fail, sidebarOn) ==
    IF result \in {"status", "reject"}
    THEN [trace |-> <<IF result = "status" THEN "fetch:status" ELSE "fetch:reject", "throw">>,
          thrown |-> "errNotFound"]
    ELSE LET injected == RunSteps(MainSteps(c.filePath, sidebarOn), fail.step)
         IN  [trace |-> <<"fetch:ok">> \o injected.trace,
              thrown |-> IF injected.threw THEN fail.kind ELSE "none"]

\* the try block of loadPage from the settled fetch on: [trace, thrown]
AfterFetch(c, result, fail, sidebarOn) ==
    IF result = "status" THEN [trace |-> <<"fetch:status", "throw">>, thrown |-> "errNotFound"]
    ELSE IF result = "reject" THEN [trace |-> <<"fetch:reject", "throw">>, thrown |-> "errOther"]
    ELSE LET injected == RunSteps(MainSteps(c.filePath, sidebarOn), fail.step)
             anchor == RunSteps(MainSteps(c.filePath, sidebarOn), "anchor")
         IN  IF injected.threw
             THEN [trace |-> <<"fetch:ok">> \o injected.trace, thrown |-> fail.kind]
             ELSE IF AnchorThrows(c.path)
             THEN [trace |-> <<"fetch:ok">> \o anchor.trace, thrown |-> "errOther"]
             ELSE [trace |-> <<"fetch:ok">> \o injected.trace, thrown |-> "none"]

\* the try block of _loadNotFoundPage from the settled fetch on
AfterNotFoundFetch(result, fail, sidebarOn) ==
    IF result = "status" THEN [trace |-> <<"nf:fetch:status", "throw">>, thrown |-> "errNotFound"]
    ELSE IF result = "reject" THEN [trace |-> <<"nf:fetch:reject", "throw">>, thrown |-> "errOther"]
    ELSE LET injected == RunSteps(NotFoundSteps(sidebarOn),
                                  IF fail.step = "parse" THEN "nf:parse"
                                  ELSE IF fail.step = "title" THEN "nf:title"
                                  ELSE IF fail.step = "sidebar" THEN "nf:sidebar"
                                  ELSE "none")
         IN  [trace |-> <<"nf:fetch:ok">> \o injected.trace,
              thrown |-> IF injected.threw THEN fail.kind ELSE "none"]

\* the catch of loadPage with the branches swapped
ClassifySwapped(thrown) ==
    IF thrown \in {"string", "nullish"} THEN "escape"
    ELSE IF thrown = "errNotFound" THEN "error"
    ELSE "notFound"

\* loadPage, lines 64-70: error.message.includes('not found') selects the
\* not-found page, anything else handleError; a thrown value without a
\* string message makes the test itself throw, out of loadPage
Classify(thrown) ==
    IF thrown \in {"string", "nullish"} THEN "escape"
    ELSE IF thrown = "errNotFound" THEN "notFound"
    ELSE "error"

\* _loadNotFoundPage, lines 123-126: the catch reads notFoundError.message
\* (a TypeError for null and undefined) and then shows the original error
ClassifyNotFound(thrown) == IF thrown = "nullish" THEN "escape" ELSE "error"

\* handleError, lines 158-164: which user message is rendered
HandleErrorMessage(thrown) == IF thrown = "errNotFound" THEN "fileNotFound" ELSE "generic"

Loading(id) == [kind |-> "loading", id |-> id, msg |-> "none"]
Page(id) == [kind |-> "page", id |-> id, msg |-> "none"]
NotFoundDoc(id) == [kind |-> "notFound", id |-> id, msg |-> "none"]
ErrorShown(id, msg) == [kind |-> "error", id |-> id, msg |-> msg]
Blank == [kind |-> "none", id |-> 0, msg |-> "none"]

Done(c, outcome, trace) ==
    [id |-> c.id, filePath |-> c.filePath, path |-> c.path, outcome |-> outcome,
     trace |-> trace]

NotFoundAddress(basePath, remoteEnabled) ==
    FetchAddress(ResolvePath(NotFoundPage, basePath), remoteEnabled, cfgProxy)

\* the end of one synchronous run of loadPage: either the call has settled
\* (done), or it awaits the fetch of the not-found page
Settle(c, trace, thrown, caught, shown, basePath, remoteEnabled) ==
    IF caught = "none" THEN
        [waiting |-> {}, done |-> Done(c, "content", trace), shown |-> shown, fetch |-> {}]
    ELSE IF caught = "escape" THEN
        [waiting |-> {}, done |-> Done(c, "rejected", trace \o <<"catch:escape">>),
         shown |-> shown, fetch |-> {}]
    ELSE IF caught = "error" THEN
        [waiting |-> {}, done |-> Done(c, "error", trace \o <<"catch:error", "error">>),
         shown |-> ErrorShown(c.id, HandleErrorMessage(thrown)), fetch |-> {}]
    ELSE
        [waiting |-> {[c EXCEPT !.pc = "fetchNF",
                                !.trace = trace \o <<"catch:notFound", "nf:fetch">>]},
         done |-> NoCall, shown |-> shown,
         fetch |-> {NotFoundAddress(basePath, remoteEnabled)}]

\* loadPage that starts the fetch before it renders the placeholder
LoadPageStartFetchFirst(id, filePath, path, basePath, remoteEnabled) ==
    LET c == [id |-> id, filePath |-> filePath, path |-> path, pc |-> "fetch",
              trace |-> <<"fetch", "loading">>]
    IN  [waiting |-> {c}, done |-> NoCall, shown |-> Loading(id),
         fetch |-> {FetchAddress(ResolvedPath(filePath, basePath), remoteEnabled, cfgProxy)}]

\* loadPage(filePath, currentPath) up to its first await
LoadPageStart(id, filePath, path, basePath, remoteEnabled) ==
    LET c == [id |-> id, filePath |-> filePath, path |-> path, pc |-> "fetch",
              trace |-> <<"loading">>]
    IN  IF GateThrows(filePath, remoteEnabled)
        THEN Settle(c, <<"loading", "gate", "throw">>, "errNotFound",
                    Classify("errNotFound"), Loading(id), basePath, remoteEnabled)
        ELSE [waiting |-> {[c EXCEPT !.trace = <<"loading", "fetch">>]},
              done |-> NoCall, shown |-> Loading(id),
              fetch |-> {FetchAddress(ResolvedPath(filePath, basePath), remoteEnabled, cfgProxy)}]

\* loadPage resumes after its fetch settled
LoadPageResume(c, result, fail, shownNow, basePath, remoteEnabled, sidebarOn) ==
    LET out == AfterFetch(c, result, fail, sidebarOn)
        trace == c.trace \o out.trace
        shown == IF \E k \in 1..Len(out.trace) : out.trace[k] = "render"
                 THEN Page(c.id) ELSE shownNow
        caught == IF out.thrown = "none" THEN "none" ELSE Classify(out.thrown)
    IN  Settle(c, trace, out.thrown, caught, shown, basePath, remoteEnabled)

\* _loadNotFoundPage resumes after its fetch settled
NotFoundResume(c, result, fail, shownNow, sidebarOn) ==
    LET out == AfterNotFoundFetch(result, fail, sidebarOn)
        trace == c.trace \o out.trace
        shown == IF \E k \in 1..Len(out.trace) : out.trace[k] = "nf:render"
                 THEN NotFoundDoc(c.id) ELSE shownNow
        caught == IF out.thrown = "none" THEN "none" ELSE ClassifyNotFound(out.thrown)
    IN  IF caught = "none" THEN
            [waiting |-> {}, done |-> Done(c, "notFoundPage", trace), shown |-> shown,
             fetch |-> {}]
        ELSE IF caught = "escape" THEN
            [waiting |-> {}, done |-> Done(c, "rejected", trace \o <<"nf:catch:escape">>),
             shown |-> shown, fetch |-> {}]
        ELSE
            [waiting |-> {}, done |-> Done(c, "error", trace \o <<"nf:catch", "error">>),
             shown |-> ErrorShown(c.id, HandleErrorMessage("errNotFound")), fetch |-> {}]

NoTitled == [id |-> 0, currentPath |-> <<>>, read |-> <<>>]

\* loadPage, lines 49-53, and _getPageTitle, line 44: updateTitle is handed
\* the router, and _getPageTitle reads router.getCurrentPath(), the fragment
\* at the time of the call; the step runs only after an await, in a run
\* that leaves the fragment alone
TitleStep(done) ==
    IF \E k \in 1..Len(done.trace) : done.trace[k] \in {"title", "nf:title"}
    THEN [id |-> done.id, currentPath |-> done.path, read |-> GetCurrentPath(hash)]
    ELSE titled

\* the effect of one synchronous run r of the pipeline on the page state
ApplyRun(r, others) ==
    /\ calls' = others \cup r.waiting
    /\ lastDone' = IF r.done = NoCall THEN lastDone ELSE r.done
    /\ content' = r.shown
    /\ fetched' = fetched \cup r.fetch
    /\ titled' = TitleStep(r.done)

(***************************************************************************)
(* ParserManager.init and App.start                                        *)
(***************************************************************************)
\* what the import and construction of the parser module can do
\* "noParse": the default export is a class whose instances have no parse
\* method (possible for a custom module only)
ParserEnvs == {"ok", "noParse", "importFails", "notAFunction", "ctorThrows"}

ParserConfigs == {"marked", "parsneshan", "custom"}

\* ParserManager.init whose catch installs no fallback parser
ParserInitNoFallback(parserConfig, env) ==
    LET ok == parserConfig \in {"marked", "custom"} /\ env \in {"ok", "noParse"}
    IN  [instance |-> IF ~ok THEN "null"
                      ELSE IF env = "noParse" /\ parserConfig = "custom" THEN "noParse"
                      ELSE "loaded",
         threw |-> ~ok]

\* ParserManager.init, lines 223-257: only 'marked' and {path} select a
\* module; any failure installs the fallback parser and rethrows; the
\* only test of the loaded module is typeof ParserClass === 'function'
ParserInit(parserConfig, env) ==
    LET ok == parserConfig \in {"marked", "custom"} /\ env \in {"ok", "noParse"}
    IN  [instance |-> IF ~ok THEN "fallback"
                      ELSE IF env = "noParse" /\ parserConfig = "custom" THEN "noParse"
                      ELSE "loaded",
         threw |-> ~ok]

\* ParserManager.parse, lines 264-271: what a call does with the instance
\* the manager holds at that moment
Parse(instance) ==
    IF instance = "null" THEN "notInitialised"
    ELSE IF instance = "noParse" THEN "typeError"
    ELSE "html"

\* the parse call of the page pipeline: when parse throws, a fetched
\* document fails at the parse step
ParseAllows(instance, st) ==
    Parse(instance) # "html" =>
        (st.result # "ok" \/ st.fail = [step |-> "parse", kind |-> "errOther"])

\* App.start, lines 305-312: getElement(root) throws when the root is
\* missing, otherwise the banner replaces the root's content
Fatal(step) ==
    /\ failedAt' = step
    /\ IF rootExists
       THEN appPc' = "fatal" /\ rootHtml' = "banner"
       ELSE appPc' = "rejected" /\ UNCHANGED rootHtml
    /\ UNCHANGED <<routerVars, pageVars>>

Proceed(pc) ==
    /\ appPc' = pc
    /\ UNCHANGED <<failedAt, routerVars, pageVars>>

\* App.start, lines 285-303: the page manager and the router are created,
\* Router.init processes the current fragment and onNavigate calls loadPage
RouterStartup ==
    LET h == IF hash = <<>> THEN HashRoot ELSE hash
        nav == HandleRouteChange(h, rDefault)
    IN  /\ appPc' = "running"
        /\ rInited' = TRUE
        /\ hash' = h
        /\ lastNav' = nav
        /\ navCount' = navCount + 1
        /\ loadCalls' = loadCalls + 1
        /\ ApplyRun(LoadPageStart(loadCalls + 1, nav.filePath, nav.path, cfgBase, cfgRemote),
                    calls)
        /\ UNCHANGED <<failedAt, rDefault, events, lastUrl>>

\* start() up to its first await: layoutManager.init(), themeManager.init()
AppStart ==
    /\ appPc = "new"
    /\ \E layoutOk \in BOOLEAN :
        IF rootExists /\ layoutOk
        THEN rootHtml' = "layout" /\ Proceed("theme")
        ELSE Fatal("layout")
    /\ UNCHANGED <<parserInstance, sidebarFetch, configVars, pluginVars>>

\* themeManager.init settles; parserManager.init() is called
ThemeSettled ==
    /\ appPc = "theme"
    /\ \E ok \in BOOLEAN :
        IF ok THEN Proceed("parser") /\ UNCHANGED rootHtml ELSE Fatal("theme")
    /\ UNCHANGED <<parserInstance, sidebarFetch, configVars, pluginVars>>

\* parserManager.init settles; loadPlugins is called
ParserSettled ==
    /\ appPc = "parser"
    /\ \E env \in ParserEnvs :
        LET r == ParserInit(cfgParser, env)
        IN  /\ parserInstance' = r.instance
            /\ IF r.threw THEN Fatal("parser") ELSE Proceed("plugins") /\ UNCHANGED rootHtml
    /\ UNCHANGED <<sidebarFetch, configVars, pluginVars>>

\* App.start, line 269, and Sidebar.load, line 216: the sidebar file is
\* resolved against basePath and fetched by fetchContent(this.sidebarFile),
\* a call without the config argument
SidebarAddress(basePath) == FetchAddress(ResolvePath(SidebarFile, basePath), FALSE, NoProxy)

\* loadPlugins resolves; getElement(content), then the sidebar (created and
\* its init() called, up to the fetch of the sidebar file) or the router
PluginsLoaded ==
    /\ appPc = "plugins"
    /\ \E contentOk \in BOOLEAN, sidebarOk \in BOOLEAN :
        IF ~contentOk THEN Fatal("content") /\ UNCHANGED sidebarFetch
        ELSE IF cfgSidebar /\ ~sidebarOk THEN Fatal("sidebar") /\ UNCHANGED sidebarFetch
        ELSE IF cfgSidebar
        THEN /\ Proceed("sidebarInit")
             /\ sidebarFetch' = sidebarFetch \cup {SidebarAddress(cfgBase)}
             /\ UNCHANGED rootHtml
        ELSE RouterStartup /\ UNCHANGED <<rootHtml, sidebarFetch>>
    /\ UNCHANGED <<parserInstance, configVars, pluginVars>>

\* sidebar.init settles; the router is started
SidebarSettled ==
    /\ appPc = "sidebarInit"
    /\ \E ok \in BOOLEAN :
        IF ok THEN RouterStartup /\ UNCHANGED rootHtml ELSE Fatal("sidebar")
    /\ UNCHANGED <<parserInstance, sidebarFetch, configVars, pluginVars>>

(***************************************************************************)
(* Navigation and the page pipeline in the running application             *)
(***************************************************************************)
RemoteSample == HttpScheme \o <<104, 47, 97>>           \* "http://h/a"

AppPaths ==
    { Slash,                                            \* "/"
      <<47, 97>>,                                       \* "/a"
      <<47, 97, 35, 115>>,                              \* "/a#s"
      <<47, 35, 37>>,                                   \* "/#%"
      <<47, 47, 47, 47, 101>>,                          \* "////e"
      RemotePrefix \o Utf8ToBase64(RemoteSample),       \* "/remote/<base64>"
      RemotePrefix \o <<33>> }                          \* "/remote/!"

\* a hashchange event: handleRouteChange, onNavigate, loadPage to its await
Navigate ==
    /\ appPc = "running"
    /\ events < MaxNav
    /\ \E p \in AppPaths :
        /\ HashMark \o p # hash
        /\ hash' = HashMark \o p
        /\ LET nav == HandleRouteChange(HashMark \o p, rDefault)
           IN  /\ lastNav' = nav
               /\ ApplyRun(LoadPageStart(loadCalls + 1, nav.filePath, nav.path,
                                         cfgBase, cfgRemote), calls)
    /\ events' = events + 1
    /\ navCount' = navCount + 1
    /\ loadCalls' = loadCalls + 1
    /\ UNCHANGED <<rDefault, rInited, lastUrl, startVars, configVars, pluginVars>>

\* the fetch of a requested page settles and loadPage runs to its end or
\* to the fetch of the not-found page
FetchSettled ==
    /\ \E c \in calls, st \in Settlements :
        /\ c.pc = "fetch"
        /\ ParseAllows(parserInstance, st)
        /\ ApplyRun(LoadPageResume(c, st.result, st.fail, content, cfgBase, cfgRemote, cfgSidebar),
                    calls \ {c})
    /\ UNCHANGED <<loadCalls, routerVars, startVars, configVars, pluginVars>>

\* the fetch of the not-found page settles and _loadNotFoundPage runs to its end
NotFoundSettled ==
    /\ \E c \in calls, st \in Settlements :
        /\ c.pc = "fetchNF"
        /\ ParseAllows(parserInstance, st)
        /\ ApplyRun(NotFoundResume(c, st.result, st.fail, content, cfgSidebar), calls \ {c})
    /\ UNCHANGED <<loadCalls, routerVars, startVars, configVars, pluginVars>>

(***************************************************************************)
(* utils.js: base64ToUtf8 and normalizePath                                *)
(***************************************************************************)
IsCont(b) == b \in 128..191

\* TextDecoder.decode (UTF-8, replacement mode) of a byte sequence, as
\* UTF-16 code units; U+FFFD replaces a byte that starts no valid sequence
RECURSIVE Utf8Decode(_)
Utf8Decode(b) ==
    IF b = <<>> THEN <<>>
    ELSE IF b[1] < 128 THEN <<b[1]>> \o Utf8Decode(Tail(b))
    ELSE IF b[1] \in 194..223 /\ Len(b) >= 2 /\ IsCont(b[2])
    THEN <<(b[1] - 192) * 64 + (b[2] - 128)>> \o Utf8Decode(SubSeq(b, 3, Len(b)))
    ELSE IF /\ b[1] \in 224..239 /\ Len(b) >= 3 /\ IsCont(b[2]) /\ IsCont(b[3])
            /\ (b[1] = 224 => b[2] >= 160)
            /\ (b[1] = 237 => b[2] <= 159)
    THEN <<(b[1] - 224) * 4096 + (b[2] - 128) * 64 + (b[3] - 128)>>
         \o Utf8Decode(SubSeq(b, 4, Len(b)))
    ELSE IF /\ b[1] \in 240..244 /\ Len(b) >= 4
            /\ IsCont(b[2]) /\ IsCont(b[3]) /\ IsCont(b[4])
            /\ (b[1] = 240 => b[2] >= 144)
            /\ (b[1] = 244 => b[2] <= 143)
    THEN LET cp == (b[1] - 240) * 262144 + (b[2] - 128) * 4096
                   + (b[3] - 128) * 64 + (b[4] - 128) - 65536
         IN  <<55296 + (cp \div 1024), 56320 + (cp % 1024)>>
             \o Utf8Decode(SubSeq(b, 5, Len(b)))
    ELSE <<65533>> \o Utf8Decode(Tail(b))

\* base64ToUtf8: [ok, val]; ok = FALSE when atob throws (the catch calls
\* atob again, which throws again)
Base64ToUtf8(b64) ==
    LET r == Atob(b64)
    IN  IF r.ok THEN [ok |-> TRUE, val |-> Utf8Decode(r.val)] ELSE r

\* the first position of s holding a unit of S, or Len(s) + 1
FirstOf(s, S) ==
    IF \E k \in 1..Len(s) : s[k] \in S
    THEN CHOOSE k \in 1..Len(s) : s[k] \in S /\ \A j \in 1..(k - 1) : s[j] \notin S
    ELSE Len(s) + 1

\* normalizePath(path)
NormalizePath(path) ==
    IF path = <<>> THEN Slash
    ELSE LET clean == SubSeq(path, 1, FirstOf(path, {63, 35}) - 1)
             noTrail == IF Len(clean) > 1 /\ clean[Len(clean)] = 47
                        THEN SubSeq(clean, 1, Len(clean) - 1) ELSE clean
         IN  IF StartsWith(noTrail, Slash) THEN noTrail ELSE Slash \o noTrail

\* the characters normalizePath distinguishes: "/", "?", "#", and a letter
NormAlphabet == {47, 63, 35, 97}

NormalizeIdle ==
    /\ normIn = <<>>
    /\ normOut = <<>>

NormalizeStart ==
    /\ normIn \in SeqsUpTo(NormAlphabet, MaxNormLen)
    /\ normOut = <<>>

\* a call of normalizePath: on the input, then on what it returned
NormalizeStep ==
    /\ Len(normOut) < MaxReapply
    /\ normOut' = Append(normOut, NormalizePath(IF normOut = <<>> THEN normIn
                                                ELSE normOut[Len(normOut)]))
    /\ UNCHANGED <<normIn, mergeVars, titleVars, rewriteVars>>
    /\ UNCHANGED <<baseConfigVars, routerVars, pluginVars, startVars, pageVars>>

(***************************************************************************)
(* TitleManager (titleManager.js)                                          *)
(***************************************************************************)
TitleLimit == 80        \* longest title left untruncated
TitleKeep == 77         \* units kept in front of "..."

Bar == <<32, 124, 32>>                                  \* " | "
Ellipsis == <<46, 46, 46>>                              \* "..."
Untitled == <<1576, 1583, 1608, 1606, 32, 1593, 1606, 1608, 1575, 1606>> \* the built-in fallback

\* String.prototype.trim
IsJsSpace(c) == c \in {9, 10, 11, 12, 13, 32, 160, 5760, 8232, 8233, 8239, 8287, 12288, 65279}
                \/ c \in 8192..8202

RECURSIVE TrimStart(_)
TrimStart(s) == IF s # <<>> /\ IsJsSpace(Head(s)) THEN TrimStart(Tail(s)) ELSE s

RECURSIVE TrimEnd(_)
TrimEnd(s) ==
    IF s # <<>> /\ IsJsSpace(s[Len(s)]) THEN TrimEnd(SubSeq(s, 1, Len(s) - 1)) ELSE s

Trim(s) == TrimEnd(TrimStart(s))

\* s.split('/').pop()
RECURSIVE LastSegment(_)
LastSegment(s) ==
    IF \E k \in 1..Len(s) : s[k] = 47
    THEN LastSegment(SubSeq(s, FirstOf(s, {47}) + 1, Len(s)))
    ELSE s

MdExtensions ==
    { <<46, 109, 100>>,                                 \* ".md"
      <<46, 109, 97, 114, 107, 100, 111, 119, 110>>,    \* ".markdown"
      <<46, 109, 107, 100>>,                            \* ".mkd"
      <<46, 109, 100, 111, 119, 110>> }                 \* ".mdown"

HasSuffixCI(s, e) ==
    Len(s) >= Len(e) /\ LowerStr(SubSeq(s, Len(s) - Len(e) + 1, Len(s))) = e

\* s.replace(/\.(md|markdown|mkd|mdown)$/i, '')
StripMdExt(s) ==
    IF \E e \in MdExtensions : HasSuffixCI(s, e)
    THEN LET e == CHOOSE e \in MdExtensions : HasSuffixCI(s, e)
         IN  SubSeq(s, 1, Len(s) - Len(e))
    ELSE s

\* new URL(u).pathname of an absolute http(s) URL without dot segments
UrlPathname(u) ==
    LET afterScheme == SubSeq(u, SchemeEnd(u) + 1, Len(u))
        authority == IF StartsWith(afterScheme, <<47, 47>>)
                     THEN SubSeq(afterScheme, 3, Len(afterScheme)) ELSE afterScheme
        rest == SubSeq(authority, FirstOf(authority, {47, 63, 35}), Len(authority))
        path == SubSeq(rest, 1, FirstOf(rest, {63, 35}) - 1)
    IN  IF path = <<>> THEN Slash ELSE path

NoMeta == [present |-> FALSE, label |-> <<>>, title |-> <<>>]

\* _getPageTitle, lines 50-63: the key and the lookup in sidebar.linkMap
SidebarMapKey(currentPath) ==
    IF StartsWith(currentPath, RemotePrefix)
    THEN LET r == Base64ToUtf8(Substring(currentPath, Len(RemotePrefix)))
         IN  IF r.ok THEN r.val ELSE <<>>
    ELSE NormalizePath(currentPath)

LinkMeta(ctx) ==
    IF ctx.entry.present /\ ctx.entry.key = SidebarMapKey(ctx.path)
    THEN ctx.entry.meta ELSE NoMeta

\* _getPageTitle, lines 66-93: the string a source yields ("" for none)
SourceValue(source, cfg, ctx) ==
    LET meta == LinkMeta(ctx)
        filePath == GetFilePath(ctx.path, cfg.defaultPage)
    IN  CASE source = "sidebarTitle" -> meta.title
          [] source = "sidebarLabel" -> meta.label
          [] source = "h1" -> ctx.h1
          [] source = "filename" ->
                IF ctx.path = Slash THEN StripMdExt(cfg.defaultPage)
                ELSE IF ~StartsWith(filePath, HttpWord) THEN StripMdExt(LastSegment(filePath))
                ELSE IF IsAbsoluteUrl(filePath) THEN StripMdExt(LastSegment(UrlPathname(filePath)))
                ELSE <<>>
          [] source = "fallback" -> IF cfg.fallback # <<>> THEN cfg.fallback ELSE Untitled
          [] OTHER -> <<>>

\* _getPageTitle, lines 65-100: the first source whose value is truthy wins
\* and its value is returned trimmed
RECURSIVE Walk(_, _, _)
Walk(priority, cfg, ctx) ==
    IF priority = <<>> THEN IF cfg.fallback # <<>> THEN cfg.fallback ELSE Untitled
    ELSE LET found == SourceValue(Head(priority), cfg, ctx)
         IN  IF found # <<>> THEN Trim(found) ELSE Walk(Tail(priority), cfg, ctx)

DefaultPriority == <<"sidebarTitle", "sidebarLabel", "h1", "filename", "fallback">>

\* _getPageTitle
GetPageTitle(cfg, ctx) ==
    Walk(IF cfg.sourcePriority = <<>> THEN DefaultPriority ELSE cfg.sourcePriority, cfg, ctx)

\* _formatTitle that adds the application name whatever the order is
FormatTitlePageFirst(pageTitle, cfg) ==
    LET final == IF cfg.includeWiki /\ cfg.appName # <<>>
                 THEN pageTitle \o cfg.separator \o cfg.appName
                 ELSE pageTitle
    IN  IF Len(final) > TitleLimit THEN SubSeq(final, 1, TitleKeep) \o Ellipsis ELSE final

\* _formatTitle(pageTitle)
FormatTitle(pageTitle, cfg) ==
    LET final == IF cfg.includeWiki /\ cfg.order # "page-only" /\ cfg.appName # <<>>
                 THEN IF cfg.order = "wiki-first"
                      THEN cfg.appName \o cfg.separator \o pageTitle
                      ELSE pageTitle \o cfg.separator \o cfg.appName
                 ELSE pageTitle
    IN  IF Len(final) > TitleLimit THEN SubSeq(final, 1, TitleKeep) \o Ellipsis ELSE final

NoTitle == [page |-> <<0>>, doc |-> <<0>>]

\* inputs of the title manager
LongHeading == [k \in 1..(TitleLimit + 1) |-> 120]      \* 81 times "x"

Headings == {<<>>, <<32>>, <<72>>, <<32, 72, 32>>, LongHeading}  \* "", " ", "H", " H "

Priorities ==
    { <<>>,                                             \* not configured: the default
      <<"h1", "sidebarTitle", "nosuch", "filename">>,
      <<"filename", "h1">> }

TitlePaths ==
    { Slash, <<47, 97>>, <<47, 97, 47>>,                \* "/", "/a", "/a/"
      RemotePrefix \o Utf8ToBase64(RemoteSample) }

\* the entries Sidebar.load stores: label and title attribute trimmed, at
\* least one of them non-empty
SidebarMetas ==
    {[present |-> TRUE, label |-> l, title |-> t] :
        l \in {<<>>, <<76>>}, t \in {<<>>, <<84>>}}
    \ {[present |-> TRUE, label |-> <<>>, title |-> <<>>]}

SidebarEntries ==
    {[present |-> FALSE, key |-> <<>>, meta |-> NoMeta]}
    \cup [present : {TRUE}, key : {<<47, 97>>, RemoteSample}, meta : SidebarMetas]

TitleConfigs ==
    [enabled : BOOLEAN, includeWiki : BOOLEAN,
     order : {"wiki-first", "page-first", "page-only", "none"},
     separator : {Bar, <<45>>}, appName : {<<>>, <<88>>},
     sourcePriority : Priorities, fallback : {<<>>, <<85>>},
     defaultPage : {ReadmeMd}]

TitleContexts == [path : TitlePaths, entry : SidebarEntries, h1 : Headings]

TitleIdle ==
    /\ titleCfg = [enabled |-> FALSE]
    /\ titleCtx = [path |-> Slash]
    /\ titleOut = NoTitle

TitleStart ==
    /\ titleCfg \in TitleConfigs
    /\ titleCtx \in TitleContexts
    /\ titleOut = NoTitle

\* updateTitle, lines 26-35
UpdateTitle ==
    /\ titleOut = NoTitle
    /\ titleCfg.enabled
    /\ LET pageTitle == GetPageTitle(titleCfg, titleCtx)
       IN  titleOut' = [page |-> pageTitle, doc |-> FormatTitle(pageTitle, titleCfg)]
    /\ UNCHANGED <<titleCfg, titleCtx, mergeVars, rewriteVars, normVars>>
    /\ UNCHANGED <<baseConfigVars, routerVars, pluginVars, startVars, pageVars>>

(***************************************************************************)
(* PageManager._rewriteRemoteContent                                       *)
(***************************************************************************)
\* the position in u of the first "/", "?" or "#" after the authority, or
\* Len(u) + 1
PathStart(u) ==
    LET k == SchemeEnd(u)
        from == IF Len(u) >= k + 2 /\ u[k + 1] = 47 /\ u[k + 2] = 47 THEN k + 3 ELSE k + 1
    IN  IF \E j \in from..Len(u) : u[j] \in {47, 63, 35}
        THEN CHOOSE j \in from..Len(u) :
                u[j] \in {47, 63, 35} /\ \A i \in from..(j - 1) : u[i] \notin {47, 63, 35}
        ELSE Len(u) + 1

UrlOrigin(u) == SubSeq(u, 1, PathStart(u) - 1)

\* the path of u up to and including its last "/"
UrlDirectory(u) ==
    LET path == UrlPathname(u)
        last == CHOOSE k \in 1..Len(path) :
                    path[k] = 47 /\ \A j \in (k + 1)..Len(path) : path[j] # 47
    IN  SubSeq(path, 1, last)

\* u without its fragment, and without its query and fragment
WithoutFragment(u) == SubSeq(u, 1, FirstOf(u, {35}) - 1)
WithoutQuery(u) == SubSeq(u, 1, FirstOf(u, {63, 35}) - 1)

\* new URL(rel, base).href for an http(s) base and a reference without dot
\* segments and without units that need percent-encoding: [ok, href];
\* ok = FALSE is the TypeError of an unparsable reference
ResolveUrl(rel, base) ==
    LET r == Trim(rel)
    IN  IF HasScheme(r) THEN
            IF IsAbsoluteUrl(r)
            THEN [ok |-> TRUE,
                  href |-> SchemeOf(r) \o SubSeq(r, SchemeEnd(r), Len(r))]
            ELSE [ok |-> FALSE, href |-> <<>>]
        ELSE IF StartsWith(r, <<47, 47>>) THEN
            [ok |-> HasHostAfter(r, 2), href |-> SchemeOf(base) \o <<58>> \o r]
        ELSE IF StartsWith(r, Slash) THEN [ok |-> TRUE, href |-> UrlOrigin(base) \o r]
        ELSE IF StartsWith(r, <<35>>) THEN [ok |-> TRUE, href |-> WithoutFragment(base) \o r]
        ELSE IF StartsWith(r, <<63>>) THEN [ok |-> TRUE, href |-> WithoutQuery(base) \o r]
        ELSE IF r = <<>> THEN [ok |-> TRUE, href |-> WithoutFragment(base)]
        ELSE [ok |-> TRUE, href |-> UrlOrigin(base) \o UrlDirectory(base) \o r]

\* the prefixes the negative lookahead (?!#|data:|https?:|\/\/) rejects
ExcludedPrefixes ==
    { <<35>>,                                           \* "#"
      <<100, 97, 116, 97, 58>>,                         \* "data:"
      <<104, 116, 116, 112, 58>>,                       \* "http:"
      <<104, 116, 116, 112, 115, 58>>,                  \* "https:"
      <<47, 47>> }                                      \* "//"

\* relativeLinkRegex matches "prefix(target)": after \s* has consumed the
\* leading white space the lookahead must not see an excluded prefix; if
\* it does, \s* gives one white-space unit back and the lookahead sees that
\* unit instead, so only a target without leading white space is rejected
RegexMatches(target) ==
    \/ target # TrimStart(target)
    \/ \A e \in ExcludedPrefixes : ~StartsWith(target, e)

\* the replace callback, lines 83-94
RewriteRef(ref, base) ==
    IF ~RegexMatches(ref.target) THEN ref
    ELSE LET abs == ResolveUrl(ref.target, base)
         IN  IF ~abs.ok THEN ref
             ELSE IF ref.image THEN [ref EXCEPT !.target = abs.href]
             ELSE [ref EXCEPT !.target = RemoteHash(abs.href)]

\* _rewriteRemoteContent(markdown, baseUrl)
RewriteRemoteContent(refs, base) == [i \in 1..Len(refs) |-> RewriteRef(refs[i], base)]

RemoteDoc == HttpScheme \o <<104, 47, 100, 47, 100, 111, 99, 46, 109, 100>>  \* "http://h/d/doc.md"
RemoteRootDoc == HttpScheme \o <<104, 47, 100, 46, 109, 100>>                \* "http://h/d.md"
LocalDoc == <<97, 46, 109, 100>>                                             \* "a.md"

Targets ==
    { <<98, 46, 109, 100>>,                             \* "b.md"
      <<47, 98, 46, 109, 100>>,                         \* "/b.md"
      <<105, 46, 112, 110, 103>>,                       \* "i.png"
      <<35, 115>>,                                      \* "#s"
      <<32, 35, 115>>,                                  \* " #s"
      <<100, 97, 116, 97, 58, 120>>,                    \* "data:x"
      HttpScheme \o <<111, 47, 98>>,                    \* "http://o/b"
      <<104, 116, 116, 112, 115, 58, 47, 47, 111, 47, 98>>,  \* "https://o/b"
      <<72, 84, 84, 80, 58, 47, 47, 111, 47, 98>>,      \* "HTTP://o/b"
      <<47, 47, 111, 47, 98>>,                          \* "//o/b"
      <<109, 97, 105, 108, 116, 111, 58, 109>> }        \* "mailto:m"

References == [image : BOOLEAN, target : Targets]

RECURSIVE RefsUpTo(_)
RefsUpTo(n) ==
    IF n = 0 THEN {<<>>}
    ELSE RefsUpTo(n - 1) \cup {Append(s, r) : s \in RefsUpTo(n - 1), r \in References}

NoDoc == <<[image |-> FALSE, target |-> <<0>>]>>

RewriteIdle ==
    /\ docIn = [filePath |-> LocalDoc, refs |-> <<>>]
    /\ docOut = NoDoc

RewriteStart ==
    /\ docIn \in [filePath : {RemoteDoc, RemoteRootDoc, LocalDoc}, refs : RefsUpTo(MaxRefs)]
    /\ docOut = NoDoc

\* loadPage, lines 42-44: the fetched markdown on its way to the parser
RewriteStep ==
    /\ docOut = NoDoc
    /\ docOut' = IF IsRemote(docIn.filePath)
                 THEN RewriteRemoteContent(docIn.refs, docIn.filePath)
                 ELSE docIn.refs
    /\ UNCHANGED <<docIn, mergeVars, titleVars, normVars>>
    /\ UNCHANGED <<baseConfigVars, routerVars, pluginVars, startVars, pageVars>>

(***************************************************************************)
(* configManager.js: deepMerge and getConfig                               *)
(***************************************************************************)
\* configuration values: a primitive, null, an array, or an object (a
\* function from its own keys to values)
Prim(n) == [p |-> n]
JsNull == [null |-> TRUE]
Arr(s) == [arr |-> s]
Obj(f) == [obj |-> f]

\* isObject(item): a non-null object that is no array
IsObject(x) == "obj" \in DOMAIN x

NoConfig == [none |-> TRUE]

TopKeys == {"a", "b"}
NestedKeys == {"a"}

Leaves == {Prim(n) : n \in 1..NPrims} \cup {JsNull, Arr(<<Prim(1)>>)}

ObjectsOver(keys, values) == {Obj(f) : f \in UNION {[K -> values] : K \in SUBSET keys}}

NestedObjects == ObjectsOver(NestedKeys, Leaves)
ConfigObjects == ObjectsOver(TopKeys, Leaves \cup NestedObjects)

\* what window.shirazeh can hold: an object, or something that is none
UserConfigs == ConfigObjects \cup {Arr(<<Prim(1)>>)}

\* a deepMerge that recurses whenever the user's value is an object and the
\* key exists in the defaults, whatever the default value is
RECURSIVE DeepMergeEarlier(_, _)
DeepMergeEarlier(target, source) ==
    LET t == IF IsObject(target) THEN target.obj ELSE <<>>
    IN  IF ~(IsObject(target) /\ IsObject(source)) THEN Obj(t)
        ELSE LET s == source.obj
             IN  Obj([k \in DOMAIN t \cup DOMAIN s |->
                        IF k \notin DOMAIN s THEN t[k]
                        ELSE IF IsObject(s[k]) /\ k \in DOMAIN t
                        THEN DeepMergeEarlier(t[k], s[k])
                        ELSE s[k]])

\* deepMerge(target, source), lines 104-122; target is always an object
RECURSIVE DeepMerge(_, _)
DeepMerge(target, source) ==
    LET t == target.obj
    IN  IF ~(IsObject(target) /\ IsObject(source)) THEN Obj(t)
        ELSE LET s == source.obj
             IN  Obj([k \in DOMAIN t \cup DOMAIN s |->
                        IF k \notin DOMAIN s THEN t[k]
                        ELSE IF IsObject(s[k]) /\ k \in DOMAIN t /\ IsObject(t[k])
                        THEN DeepMerge(t[k], s[k])
                        ELSE s[k]])

MergeIdle ==
    /\ cfgDefaults = Obj(<<>>)
    /\ cfgUser = Obj(<<>>)
    /\ cfgMerged = NoConfig

MergeStart ==
    /\ cfgDefaults \in ConfigObjects
    /\ cfgUser \in UserConfigs
    /\ cfgMerged = NoConfig

\* getConfig, lines 139-153: window.shirazeh || {} merged onto the defaults
GetConfig ==
    /\ cfgMerged = NoConfig
    /\ cfgMerged' = DeepMerge(cfgDefaults, cfgUser)
    /\ UNCHANGED <<cfgDefaults, cfgUser, titleVars, rewriteVars, normVars>>
    /\ UNCHANGED <<baseConfigVars, routerVars, pluginVars, startVars, pageVars>>

LibIdle == MergeIdle /\ TitleIdle /\ RewriteIdle /\ NormalizeIdle

CoreIdle ==
    /\ cfgRemote = FALSE
    /\ cfgProxy = NoProxy
    /\ cfgBase = <<46>>
    /\ cfgSidebar = TRUE
    /\ cfgParser = "marked"
    /\ rootExists = TRUE
    /\ appPc = "new"
    /\ failedAt = "none"
    /\ parserInstance = "null"
    /\ rootHtml = "initial"
    /\ sidebarFetch = {}
    /\ calls = {}
    /\ lastDone = NoCall
    /\ content = Blank
    /\ fetched = {}
    /\ loadCalls = 0
    /\ titled = NoTitled

AppIdle == CoreIdle /\ LibIdle

\* remote.corsProxyUrl: unset, or a prefix such as
\* 'https://api.allorigins.win/raw?url=' (here "p?")
ProxyUrls == {NoProxy, <<112, 63>>}

BasePaths == {<<>>, <<46>>}                             \* "" and "."

AppInit ==
    /\ cfgRemote \in BOOLEAN
    /\ cfgProxy \in ProxyUrls
    /\ cfgBase \in BasePaths
    /\ cfgSidebar \in BOOLEAN
    /\ cfgParser \in ParserConfigs
    /\ rootExists \in BOOLEAN
    /\ appPc = "new"
    /\ failedAt = "none"
    /\ parserInstance = "null"
    /\ rootHtml = "initial"
    /\ sidebarFetch = {}
    /\ calls = {}
    /\ lastDone = NoCall
    /\ content = Blank
    /\ fetched = {}
    /\ loadCalls = 0
    /\ titled = NoTitled
    /\ hash \in {<<>>, <<35, 47, 97>>}
    /\ rDefault = ReadmeMd
    /\ rInited = FALSE
    /\ lastNav = NoNav
    /\ navCount = 0
    /\ events = 0
    /\ lastUrl = NoUrl
    /\ PluginsIdle
    /\ LibIdle

(***************************************************************************)
(* Specifications                                                          *)
(***************************************************************************)
AppNext ==
    \/ AppStart
    \/ ThemeSettled
    \/ ParserSettled
    \/ PluginsLoaded
    \/ SidebarSettled
    \/ Navigate
    \/ FetchSettled
    \/ NotFoundSettled

Spec == AppInit /\ [][AppNext]_vars

PluginsInit == PluginsStart /\ RouterIdle /\ AppIdle

SpecPlugins == PluginsInit /\ [][PluginsNext]_vars

RouterNext ==
    \/ RouterInit
    \/ HashChangeLocal
    \/ HashChangeRemote
    \/ HashChangeTyped
    \/ HashCleared

RouterSpecInit == RouterStart /\ PluginsIdle /\ AppIdle

SpecRouter == RouterSpecInit /\ [][RouterNext]_vars

ConfigSpecInit == MergeStart /\ TitleIdle /\ RewriteIdle /\ NormalizeIdle /\ CoreIdle /\ RouterIdle /\ PluginsIdle

SpecConfig == ConfigSpecInit /\ [][GetConfig]_vars

TitleSpecInit == TitleStart /\ MergeIdle /\ RewriteIdle /\ NormalizeIdle /\ CoreIdle /\ RouterIdle /\ PluginsIdle

SpecTitle == TitleSpecInit /\ [][UpdateTitle]_vars

RewriteSpecInit == RewriteStart /\ MergeIdle /\ TitleIdle /\ NormalizeIdle /\ CoreIdle /\ RouterIdle /\ PluginsIdle

SpecRewrite == RewriteSpecInit /\ [][RewriteStep]_vars

NormalizeSpecInit ==
    NormalizeStart /\ MergeIdle /\ TitleIdle /\ RewriteIdle /\ CoreIdle /\ RouterIdle /\ PluginsIdle

SpecNormalize == NormalizeSpecInit /\ [][NormalizeStep]_vars

(***************************************************************************)
(* Properties of the plugin manager                                        *)
(***************************************************************************)
\* a module whose import, default export, constructor and synchronous onInit
\* all succeed
Loadable(m) ==
    /\ m.import = "ok"
    /\ m.export = "class"
    /\ m.ctor = "ok"
    /\ m.onInit # "throws"

\* C1: loadPlugins isolates failures per plugin: whatever the other listed
\* modules do (import fails, no constructor exported, constructor throws,
\* onInit throws), every loadable plugin whose callback has run is
\* initialised once and in the active list, and the promise of loadPlugins
\* never rejects and is resolved once every callback has run.
C1_FaultIsolation ==
    /\ loadResult # "rejected"
    /\ (loadResult # "none" /\ \A j \in 1..NPaths : pStatus[j] = "settled")
          => loadResult = "resolved"
    /\ \A i \in 1..NPaths :
          (pStatus[i] = "settled" /\ Loadable(paths.mods[i]))
            => /\ InList(i)
               /\ paths.mods[i].onInit # "absent" => initCalls[i] = 1

\* C1 witness: loadPlugins has resolved, an earlier path's onInit threw and
\* a later path's plugin is active and initialised
C1_Witness ==
    /\ loadResult = "resolved"
    /\ \E i, j \in 1..NPaths :
          /\ i < j
          /\ paths.mods[i].onInit = "throws" /\ pInit[i] = "threw"
          /\ InList(j) /\ initCalls[j] = 1

\* C2: notify invokes the handler of every active plugin that has a method
\* named eventName, once each, in the order of the active list, skipping
\* the plugins without it; a throwing handler neither stops the later
\* ones nor lets the exception leave notify.
C2_NotifyIsolation ==
    notifies > 0 =>
        /\ ~notifyThrew
        /\ delivered = SelectSeq(plugins,
                LAMBDA i : Handler(paths.mods[i], lastEvent) # "absent")

\* C2 witness: a notify in which the first plugin's handler threw and the
\* second plugin's handler was still invoked
C2_Witness ==
    /\ notifies > 0
    /\ Len(delivered) = 2
    /\ Handler(paths.mods[delivered[1]], lastEvent) = "throws"

\* C3: onInit is invoked at most once per instance and a plugin whose
\* onInit failed (threw, or returned a promise that rejected) is not in
\* the active list and has received no onPageLoad.
C3_ActiveOnlyIfInitSucceeded ==
    \A i \in 1..NPaths :
        /\ initCalls[i] <= 1
        /\ pInit[i] \in {"threw", "rejected"} => (~InList(i) /\ recv[i] = 0)

(***************************************************************************)
(* Properties of the router                                                *)
(***************************************************************************)
\* C9: the file path handed to the navigation callback is the default page
\* for "/", and for every other path without the remote prefix it is the
\* path without its first character followed by ".md".
C9_RouterMapping ==
    navCount > 0 =>
        /\ lastNav.path = Slash => lastNav.filePath = rDefault
        /\ (lastNav.path # Slash /\ ~StartsWith(lastNav.path, RemotePrefix))
              => lastNav.filePath = SubSeq(lastNav.path, 2, Len(lastNav.path)) \o DotMd

\* C9 witness: after a fragment change the callback got "/a/" -> "a/.md"
C9_Witness ==
    /\ events > 0
    /\ lastNav.path = <<47, 97, 47>>
    /\ lastNav.filePath = <<97, 47, 46, 109, 100>>

\* C10: for every absolute URL u, navigating to the remote route built
\* with utf8ToBase64(u) hands the callback exactly u as the file path.
C10_RemoteRoundTrip ==
    lastUrl # NoUrl => lastNav.filePath = lastUrl

\* the tail of a remote route
RemoteTail(path) == Substring(path, Len(RemotePrefix))

\* C11: for every path with the remote prefix whose tail atob rejects,
\* the callback is still invoked, with the default page as the file path.
C11_DecodeFailureRecovered ==
    (rInited /\ StartsWith(GetCurrentPath(hash), RemotePrefix)
             /\ ~Atob(RemoteTail(GetCurrentPath(hash))).ok)
        => /\ lastNav.path = GetCurrentPath(hash)
           /\ lastNav.filePath = rDefault

\* C11 witness: the route "/remote/!" was navigated to and the callback got
\* the default page
C11_Witness ==
    /\ events > 0
    /\ lastNav.path = RemotePrefix \o <<33>>
    /\ lastNav.filePath = rDefault

\* C12: a trailing "#anchor" does not change the file that is loaded: the
\* resource requested for the path p#a is the one requested for p.
C12_AnchorKeepsFile ==
    (navCount > 0 /\ AnchorIndex(lastNav.path) > 0) =>
        LET p == SubSeq(lastNav.path, 1, AnchorIndex(lastNav.path) - 1)
        IN  Resource(lastNav.filePath) = Resource(GetFilePath(p, rDefault))

\* C13: Router.init invokes the callback once for the current fragment
\* (path "/" when it is empty), every later fragment change invokes it
\* once more, and every invocation passes (getFilePath(path), path) for the
\* path of the fragment at that moment.
C13_CallbackPerChange ==
    /\ navCount = (IF rInited THEN events + 1 ELSE 0)
    /\ rInited =>
          /\ lastNav.path = (IF Len(hash) <= 1 THEN Slash ELSE Substring(hash, 1))
          /\ lastNav.filePath = GetFilePath(lastNav.path, rDefault)

\* C13 witness: after init and one fragment change that emptied the
\* fragment, the callback has run twice, the second time with "/"
C13_Witness ==
    /\ rInited
    /\ events = 1
    /\ navCount = 2
    /\ hash = <<>>
    /\ lastNav = [filePath |-> rDefault, path |-> Slash]

(***************************************************************************)
(* Properties of the page pipeline                                         *)
(***************************************************************************)
Has(t, x) == \E k \in 1..Len(t) : t[k] = x

Occurrences(t, S) == Cardinality({k \in 1..Len(t) : t[k] \in S})

Position(t, x) == CHOOSE k \in 1..Len(t) : t[k] = x

\* C4: a loadPage call that ends with content rendered (the page or the
\* not-found document) issued notify('onPageLoad') exactly once, one that
\* ends with the error message issued it zero times; every notify comes
\* right after the render and the title update of its document and before
\* any sidebar update.
C4_NotifyOncePerRender ==
    lastDone # NoCall =>
        LET t == lastDone.trace
            n == Occurrences(t, {"notify", "nf:notify"})
        IN  /\ lastDone.outcome \in {"content", "notFoundPage"} => n = 1
            /\ lastDone.outcome = "error" => n = 0
            /\ \A k \in 1..Len(t) :
                 /\ t[k] = "notify" =>
                      /\ k > 2 /\ t[k - 1] = "title" /\ t[k - 2] = "render"
                      /\ \A j \in 1..k : t[j] # "sidebar"
                 /\ t[k] = "nf:notify" =>
                      /\ k > 2 /\ t[k - 1] = "nf:title" /\ t[k - 2] = "nf:render"
                      /\ \A j \in 1..k : t[j] # "nf:sidebar"

\* the steps of _loadNotFoundPage recorded in a trace
NotFoundPart(t) == SubSeq(t, Position(t, "nf:fetch"), Len(t))

\* C5: when the fetch of the requested file returns a non-success status,
\* loadPage loads the configured not-found document: if none of its steps
\* fails the document is parsed, rendered, titled and notified and no
\* error message is shown; the error message is shown only after a step of
\* the not-found load failed, and always when its fetch failed.
C5_NotFoundFallback ==
    (lastDone # NoCall /\ Has(lastDone.trace, "fetch:status")) =>
        LET t == lastDone.trace
            nf == NotFoundPart(t)
            ok == <<"nf:fetch", "nf:fetch:ok", "nf:parse", "nf:render", "nf:title", "nf:notify">>
        IN  /\ Has(t, "nf:fetch")
            /\ ~Has(t, "render")
            /\ lastDone.outcome # "content"
            /\ ~Has(nf, "throw") =>
                 /\ lastDone.outcome = "notFoundPage"
                 /\ SubSeq(nf, 1, Len(ok)) = ok
                 /\ ~Has(t, "error")
            /\ lastDone.outcome = "notFoundPage" => ~Has(nf, "throw")
            /\ Has(t, "error") => (Has(nf, "throw") /\ lastDone.outcome = "error")
            /\ (Has(nf, "nf:fetch:status") \/ Has(nf, "nf:fetch:reject"))
                 => (lastDone.outcome = "error" /\ Has(t, "error"))

\* C5 witness: a call whose fetch returned a non-success status ended with
\* the not-found document rendered
C5_Witness ==
    /\ lastDone # NoCall
    /\ Has(lastDone.trace, "fetch:status")
    /\ lastDone.outcome = "notFoundPage"
    /\ content = NotFoundDoc(lastDone.id)

\* C6: while remote loading is disabled the page pipeline hands no external
\* address to fetch.
C6_RemoteFailsClosed ==
    ~cfgRemote => \A a \in fetched : ~IsExternalAddress(a)

\* C7: a failure inside loadPage that is not classified as not-found ends
\* with the error message rendered, and the promise of loadPage never
\* rejects.
C7_FailuresShowError ==
    lastDone # NoCall =>
        /\ lastDone.outcome # "rejected"
        /\ (Has(lastDone.trace, "throw") /\ ~Has(lastDone.trace, "catch:notFound"))
             => (lastDone.outcome = "error" /\ Has(lastDone.trace, "error"))

\* the traces of all loadPage calls, in flight or settled last
Traces == {c.trace : c \in calls} \cup (IF lastDone = NoCall THEN {} ELSE {lastDone.trace})

\* C14: the first effect of every loadPage call is the rendering of the
\* loading placeholder: it precedes the start of any fetch and every other
\* write to the content root of that call, and happens once.
C14_LoadingFirst ==
    \A t \in Traces :
        /\ t[1] = "loading"
        /\ \A k \in 2..Len(t) : t[k] # "loading"

\* C14 witness: a call is awaiting its fetch, the address has been handed
\* to fetch and the content root shows that call's placeholder
C14_Witness ==
    \E c \in calls :
        /\ c.pc = "fetch"
        /\ c.trace = <<"loading", "fetch">>
        /\ content = Loading(c.id)
        /\ fetched # {}

RECURSIVE MergedBy(_, _, _)
MergedBy(m, d, u) ==
    /\ IsObject(m)
    /\ DOMAIN m.obj = DOMAIN d.obj \cup DOMAIN u.obj
    /\ \A k \in DOMAIN u.obj :
          IF k \in DOMAIN d.obj /\ IsObject(d.obj[k]) /\ IsObject(u.obj[k])
          THEN MergedBy(m.obj[k], d.obj[k], u.obj[k])
          ELSE m.obj[k] = u.obj[k]
    /\ \A k \in DOMAIN d.obj \ DOMAIN u.obj : m.obj[k] = d.obj[k]

\* C18: in the merged configuration every key of the user object has the
\* user's value, except that where the default and the user value are both
\* plain objects they are merged by the same rule; arrays, null and
\* primitives replace the default wholesale; keys absent from the user
\* object keep their default.
C18_DeepMerge ==
    (cfgMerged # NoConfig /\ IsObject(cfgUser)) => MergedBy(cfgMerged, cfgDefaults, cfgUser)

\* C18 witness: the user's nested object was merged into the default's
\* nested object under "a" while the user's object under "b" replaced a
\* primitive default
C18_Witness ==
    /\ cfgMerged # NoConfig
    /\ cfgDefaults = Obj([a |-> Obj([a |-> Prim(1)]), b |-> Prim(1)])
    /\ cfgUser = Obj([a |-> Obj(<<>>), b |-> Obj([a |-> Prim(2)])])
    /\ cfgMerged = Obj([a |-> Obj([a |-> Prim(1)]), b |-> Obj([a |-> Prim(2)])])

(***************************************************************************)
(* Properties of the title manager                                         *)
(***************************************************************************)
EffectivePriority ==
    IF titleCfg.sourcePriority = <<>> THEN DefaultPriority ELSE titleCfg.sourcePriority

\* the value of the first source of the priority list that satisfies Test
FirstValue(Test(_)) ==
    LET pr == EffectivePriority
        k == CHOOSE k \in 1..Len(pr) :
                /\ Test(SourceValue(pr[k], titleCfg, titleCtx))
                /\ \A j \in 1..(k - 1) : ~Test(SourceValue(pr[j], titleCfg, titleCtx))
    IN  SourceValue(pr[k], titleCfg, titleCtx)

SomeValue(Test(_)) ==
    \E k \in 1..Len(EffectivePriority) :
        Test(SourceValue(EffectivePriority[k], titleCfg, titleCtx))

NonEmpty(v) == v # <<>>
NonBlank(v) == Trim(v) # <<>>

\* C16: the page title is the value of the first source, in the configured
\* priority order, that yields a non-empty string: either the value of the
\* first source whose string is not empty, or the trimmed value of the
\* first source whose string is not blank.
C16_FirstNonEmptySource ==
    (titleOut # NoTitle /\ SomeValue(NonEmpty)) =>
        \/ titleOut.page = FirstValue(NonEmpty)
        \/ SomeValue(NonBlank) /\ titleOut.page = Trim(FirstValue(NonBlank))

\* the title before truncation, for a page title and an expected layout
Untruncated(t) == Len(t) <= TitleLimit

\* C17 as stated: with includeWiki, order 'wiki-first' gives appName +
\* separator + pageTitle, 'page-only' gives pageTitle, any other order
\* gives pageTitle + separator + appName (titles within the length limit).
C17_AsStated ==
    (titleOut # NoTitle /\ titleCfg.includeWiki) =>
        LET page == titleOut.page
            expected == IF titleCfg.order = "wiki-first"
                        THEN titleCfg.appName \o titleCfg.separator \o page
                        ELSE IF titleCfg.order = "page-only" THEN page
                        ELSE page \o titleCfg.separator \o titleCfg.appName
        IN  Untruncated(expected) => titleOut.doc = expected

\* C17 as the code behaves: with includeWiki and a non-empty appName,
\* order 'wiki-first' gives appName + separator + pageTitle, 'page-only'
\* gives pageTitle and any other order pageTitle + separator + appName;
\* with an empty appName, or without includeWiki, the title is pageTitle
\* alone for every order; a title longer than 80 units is cut to its
\* first 77 units followed by "...".
C17_TitleFormat ==
    titleOut # NoTitle =>
        LET page == titleOut.page
            plain == ~titleCfg.includeWiki \/ titleCfg.appName = <<>>
                     \/ titleCfg.order = "page-only"
            expected == IF plain THEN page
                        ELSE IF titleCfg.order = "wiki-first"
                        THEN titleCfg.appName \o titleCfg.separator \o page
                        ELSE page \o titleCfg.separator \o titleCfg.appName
        IN  IF Untruncated(expected) THEN titleOut.doc = expected
            ELSE titleOut.doc = SubSeq(expected, 1, TitleKeep) \o Ellipsis

\* C17 witness: order 'wiki-first', separator " | ", appName "X" and the
\* page title "H" give exactly "X | H"
C17_Witness ==
    /\ titleOut # NoTitle
    /\ titleCfg.includeWiki
    /\ titleCfg.order = "wiki-first"
    /\ titleCfg.appName = <<88>>
    /\ titleCfg.separator = Bar
    /\ titleOut.page = <<72>>
    /\ titleOut.doc = <<88, 32, 124, 32, 72>>

(***************************************************************************)
(* Properties of remote-link rewriting                                     *)
(***************************************************************************)
\* a reference that is already absolute (it has a scheme), protocol-relative
\* or a pure "#" anchor
KeepsTarget(target) ==
    LET t == Trim(target)
    IN  HasScheme(t) \/ StartsWith(t, <<47, 47>>) \/ StartsWith(t, <<35>>)

\* C19: in a document fetched from an absolute URL every relative link
\* becomes the remote route that encodes its target resolved against the
\* document's URL, every relative image becomes the resolved absolute URL,
\* and references that are absolute, protocol-relative, data: or pure "#"
\* anchors are unchanged; a document fetched locally is unchanged.
C19_RemoteLinkRewriting ==
    docOut # NoDoc =>
        /\ Len(docOut) = Len(docIn.refs)
        /\ ~IsRemote(docIn.filePath) => docOut = docIn.refs
        /\ IsRemote(docIn.filePath) =>
              \A i \in 1..Len(docOut) :
                LET ref == docIn.refs[i]
                    abs == ResolveUrl(ref.target, docIn.filePath).href
                IN  /\ docOut[i].image = ref.image
                    /\ docOut[i].target =
                          IF KeepsTarget(ref.target) THEN ref.target
                          ELSE IF ref.image THEN abs
                          ELSE HashMark \o RemotePrefix \o Utf8ToBase64(abs)

(***************************************************************************)
(* Properties of App.start                                                 *)
(***************************************************************************)
\* C8 as stated: if layout, theme or parser initialisation fails, the
\* router is never initialised, no loadPage call happens, the root shows
\* the fatal banner and the ParserManager holds the fallback parser.
C8_AsStated ==
    failedAt \in {"layout", "theme", "parser"} =>
        /\ ~rInited
        /\ loadCalls = 0
        /\ rootHtml = "banner"
        /\ parserInstance = "fallback"

\* C8 as the code behaves: if layout, theme or parser initialisation fails, the router
\* is never initialised and no loadPage call happens; the banner replaces
\* the root whenever the root element exists (otherwise start() rejects
\* and no banner is shown); the ParserManager holds the fallback parser
\* when parserManager.init() failed and no parser at all when the layout
\* or the theme failed before it.
C8_StartupStops ==
    failedAt \in {"layout", "theme", "parser"} =>
        /\ ~rInited
        /\ loadCalls = 0 /\ calls = {} /\ lastDone = NoCall
        /\ rootExists => (appPc = "fatal" /\ rootHtml = "banner")
        /\ ~rootExists => (appPc = "rejected" /\ rootHtml # "banner")
        /\ failedAt = "parser" => parserInstance = "fallback"
        /\ failedAt \in {"layout", "theme"} => parserInstance = "null"

\* C20: a parser whose instances provide no parse operation is never the
\* active parser instance: init installs the fallback parser and rejects.
C20_ParserShapeValidated ==
    parserInstance # "noParse"

\* C8 witness: parserManager.init() failed for the built-in 'marked'
\* parser, the banner is shown and the fallback parser is installed
C8_Witness ==
    /\ failedAt = "parser"
    /\ cfgParser = "marked"
    /\ appPc = "fatal"
    /\ rootHtml = "banner"
    /\ parserInstance = "fallback"


(***************************************************************************)
(* Plugin ordering and lifecycle (SpecPlugins)                             *)
(***************************************************************************)
\* C21: once loadPlugins has resolved, the active list holds the loaded
\* plugins in the relative order of their configured paths, whatever the
\* order in which the imports completed.
C21_RegistrationOrder ==
    loadResult = "resolved" =>
        \A k \in 1..(Len(plugins) - 1) : plugins[k] < plugins[k + 1]

\* C30: a plugin that has received onPageLoad has a completed onInit (for
\* an async onInit: a settled promise), no onPageLoad is delivered while a
\* listed plugin's load is unsettled, and every loaded plugin with the
\* handler receives the onPageLoad of a render.
C30_InitBeforePageLoad ==
    /\ \A i \in 1..NPaths : recv[i] > 0 => pInit[i] # "pending"
    /\ (\E i \in 1..NPaths : recv[i] > 0) =>
           \A j \in 1..NPaths : pStatus[j] = "settled"
    /\ lastEvent = "onPageLoad" =>
           \A i \in 1..NPaths :
               (InList(i) /\ paths.mods[i].onPageLoad # "absent") => recv[i] > 0


(***************************************************************************)
(* Parser start-up (Spec)                                                  *)
(***************************************************************************)
\* the selectors of the parsers shipped in src/parsers
BuiltInParsers == {"marked", "parsneshan"}

\* C22: for every built-in parser selector, the default 'parsneshan'
\* included, ParserManager.init resolves when the parser's module loads and
\* constructs: start-up stops at the parser step only for a failure of the
\* module, never because of the selector.
C22_BuiltInParsersInit ==
    (cfgParser \in BuiltInParsers /\ failedAt = "parser") =>
        ~ParserInit(cfgParser, "ok").threw


\* parserManager.init() has settled: start() went past its await, into the
\* next step or into the catch
InitSettled ==
    \/ appPc \in {"plugins", "sidebarInit", "running"}
    \/ failedAt \in {"parser", "content", "sidebar"}

\* C23: until init has settled the manager holds no instance and parse
\* throws the not-initialised error; once init has settled, resolved or
\* rejected, an instance is present and parse never throws that error; and
\* neither the sidebar nor a page load exists before init has settled.
C23_ParseAfterInit ==
    /\ ~InitSettled => Parse(parserInstance) = "notInitialised"
    /\ InitSettled => Parse(parserInstance) # "notInitialised"
    /\ (loadCalls > 0 \/ appPc = "sidebarInit") => InitSettled

\* init rejected and left the fallback parser behind
C23_Witness ==
    /\ failedAt = "parser"
    /\ parserInstance = "fallback"
    /\ Parse(parserInstance) = "html"


(***************************************************************************)
(* Termination and targets of the page pipeline (Spec)                     *)
(***************************************************************************)
\* C24: a loadPage call whose fetches have settled has left the loading
\* state and ended in exactly one of three outcomes: while no later call
\* has written to the content root, the root shows that call's page, its
\* not-found document or its error message, and the recorded outcome is
\* the matching one.
C24_LoadPageEnds ==
    (lastDone # NoCall /\ content.id = lastDone.id) =>
        \/ content = Page(lastDone.id) /\ lastDone.outcome = "content"
        \/ content = NotFoundDoc(lastDone.id) /\ lastDone.outcome = "notFoundPage"
        \/ content.kind = "error" /\ lastDone.outcome = "error"


\* C25: for every file path the router hands to loadPage, the pipeline's
\* remote test and the fetcher's absolute-URL test agree: the target is
\* treated as remote exactly when it is an absolute URL, so a local file
\* whose name begins with "http" is loaded as a local file.
C25_RemoteIffAbsolute ==
    lastNav # NoNav =>
        (IsRemote(lastNav.filePath) <=> IsAbsoluteUrl(lastNav.filePath))


\* the address starts with the configured CORS proxy prefix
Proxied(a) == cfgProxy # NoProxy /\ StartsWith(a, cfgProxy)

\* C26: an address handed to fetch carries the CORS proxy prefix only when
\* remote loading is enabled, a proxy is configured and the target after
\* the prefix is an absolute URL; for a target that is no absolute URL (a
\* page awaiting its fetch, the not-found document, the sidebar file) the
\* address handed to fetch is exactly the resolved path.
C26_ProxyOnlyForRemote ==
    /\ \A a \in fetched \cup sidebarFetch :
           Proxied(a) => (cfgRemote /\ IsAbsoluteUrl(Substring(a, Len(cfgProxy))))
    /\ \A c \in calls :
           LET target == IF c.pc = "fetch" THEN ResolvedPath(c.filePath, cfgBase)
                         ELSE ResolvePath(NotFoundPage, cfgBase)
           IN  ~IsAbsoluteUrl(target) => target \in fetched
    /\ appPc = "sidebarInit" => sidebarFetch = {ResolvePath(SidebarFile, cfgBase)}
    /\ sidebarFetch # {} => cfgSidebar

\* C26 witness: with remote loading enabled and a proxy configured, a
\* proxied remote address and the unproxied sidebar file have been fetched
\* and the not-found document is being fetched from its resolved path
C26_Witness ==
    /\ cfgRemote
    /\ cfgProxy # NoProxy
    /\ \E a \in fetched : Proxied(a)
    /\ sidebarFetch = {ResolvePath(SidebarFile, cfgBase)}
    /\ \E c \in calls : c.pc = "fetchNF"
    /\ ResolvePath(NotFoundPage, cfgBase) \in fetched


(***************************************************************************)
(* normalizePath (SpecNormalize)                                           *)
(***************************************************************************)
\* C27: for every input string normalizePath returns a path that starts
\* with "/", contains neither "?" nor "#" and has no trailing "/" unless it
\* is exactly "/"; applied to its own result it returns that result.
C27_NormalizePathShape ==
    /\ \A k \in 1..Len(normOut) :
           LET r == normOut[k]
           IN  /\ StartsWith(r, Slash)
               /\ \A j \in 1..Len(r) : r[j] \notin {63, 35}
               /\ (r[Len(r)] = 47 => r = Slash)
    /\ Len(normOut) >= 2 => normOut[2] = normOut[1]


(***************************************************************************)
(* Overlapping navigations (Spec)                                          *)
(***************************************************************************)
\* C28: last navigation wins: once every loadPage call has completed, the
\* content root shows the result of the most recent navigation.
C28_LastNavigationWins ==
    (calls = {} /\ loadCalls > 0) => content.id = loadCalls


\* C29: the title is computed for the navigation path of the call whose
\* content was just rendered: the path _getPageTitle reads is the
\* currentPath handed to that loadPage call, also when another navigation
\* happened while the call was in flight.
C29_TitleMatchesContent ==
    titled # NoTitled => titled.read = titled.currentPath

====
